---- MODULE Spec2Model ----
(***************************************************************************)
(* Limit order book of the matching engine (package engine): the command   *)
(* state machine of OrderBook, its two price-time priority queues built on *)
(* container/heap, the matching kernel, cancel, amend and depth trimming.  *)
(*                                                                         *)
(* Every action is one command served to completion by OrderBook.run; the  *)
(* trade-stream consumer is taken to drain, so a send on ob.trades does    *)
(* not suspend the handler.  The clock is the injectable ob.now: it is read *)
(* by the handlers and advanced by the environment (Tick).                  *)
(***************************************************************************)
EXTENDS Integers, Sequences, FiniteSets, TLC

\* ------------------------------------------------------------------ bounds
MaxSeq == 3        \* commands that draw a sequence number in one run
MaxTime == 1       \* clock readings 0..MaxTime
MaxCalls == 4      \* API calls made in one run of the concurrent callers
MaxWorkSeq == 18   \* sequence numbers drawn in one run of the worker loop
MaxBuffer == 2      \* largest buffer a subscription is made with
MaxBroadcasts == 2  \* values the hub broadcasts in one run

\* ------------------------------------------------------------------ inputs
Buy == "Buy"
Sell == "Sell"
Limit == "Limit"
Market == "Market"
NoErr == "nil"

BookSymbol == "SYM"
Ids == {"a", "b"}
Callers == {"c1", "c2"}
TickSizes == {2}
MaxDepths == {0, 1}
TradesCap == 16    \* capacity of the ob.trades buffer
UpdatesCap == 16   \* capacity of the ob.updates buffer
RespCap == 1       \* capacity of a request's resp and view channels

Order(id, sym, side, type, price, qty) ==
    [ID |-> id, Symbol |-> sym, Side |-> side, Type |-> type, Price |-> price,
     Quantity |-> qty, Remaining |-> 0, Timestamp |-> 0, Sequence |-> 0]

\* Orders that pass validation under tick size 2: limits on two price levels,
\* and market orders.
LimitInputs ==
    {Order(id, BookSymbol, side, Limit, price, qty) :
        id \in Ids, side \in {Buy, Sell}, price \in {2, 4}, qty \in {1, 2}}

MarketInputs ==
    {Order("b", BookSymbol, side, Market, 0, qty) : side \in {Buy, Sell}, qty \in {1, 2}}

\* Amend arguments: <<>> is a nil pointer, <<v>> points to v.  Price 3 is off
\* the tick, price 6 is above every submitted price, quantity 0 is not positive.
AmendPrices == {<<>>, <<2>>, <<6>>, <<3>>}
AmendQtys == {<<>>, <<0>>, <<1>>}

\* The traffic of the reply-focused specification: fewer accepted orders, and
\* one order for each way validation fails.
PlainInputs ==
    {Order(id, BookSymbol, side, Limit, price, 2) :
        id \in Ids, side \in {Buy, Sell}, price \in {2, 4}}

RejectedInputs ==
    {Order("a", "OTH", Buy, Limit, 2, 1),
     Order("a", BookSymbol, Sell, Market, 0, 0),
     Order("b", BookSymbol, Buy, Limit, 3, 1),
     Order("b", BookSymbol, Sell, Limit, 0, 2)}

\* The traffic of the trade-stream specification: limit orders at one price.
StreamInputs ==
    {Order(id, BookSymbol, side, Limit, 2, qty) :
        id \in Ids, side \in {Buy, Sell}, qty \in {1, 2}}

\* The inputs of the validation check taken alone: every combination of a wrong
\* symbol, non-positive quantities, non-positive and unaligned prices, and
\* non-positive tick sizes.
ValidationTickSizes == {-1, 0, 1, 2}
ValidationInputs ==
    {Order("a", sym, side, type, price, qty) :
        sym \in {BookSymbol, "OTH"}, side \in {Buy, Sell}, type \in {Limit, Market},
        price \in {-2, 0, 1, 2, 3, 4}, qty \in {-1, 0, 1, 2}}

\* The supervisor's bots that share the throttled client: a bid bot and an
\* ask bot.  The ids NextID hands out, in its order.
Bots == {"bid", "ask"}
BotIds == <<"a", "b", "c">>
BotSide(b) == IF b = "bid" THEN Buy ELSE Sell

\* What a bot hands to the client: limit orders of its side, the symbol set or
\* left empty, the price on the tick or off it.
BotInputs(b, id) ==
    {Order(id, sym, BotSide(b), Limit, price, qty) :
        sym \in {"", BookSymbol}, price \in {2, 3}, qty \in {1, 2}}

\* The subscriptions the stream handlers may make.
Subs == {"s1", "s2"}

VARIABLES
    cfg,      \* OrderBookConfig: Symbol, TickSize, MaxDepth
    bids,     \* ob.bids: the heap array of bid entries
    asks,     \* ob.asks: the heap array of ask entries
    orders,   \* ob.orders: id -> entry (by entry identity)
    seq,      \* ob.seq
    clock,    \* the value ob.now() returns
    last,     \* the command served last: its request, reply and outputs
    calls,    \* per caller: the API call it is in (request sent, reply on resp)
    hist,     \* history of the calls: tickets invoked, served in order, returned
    tradesCh, \* the buffer of ob.trades
    stopped,  \* the worker has served requestStop: ob.trades is closed
    feed,     \* history of the streams: trades sent and received, latest view
    updatesCh, \* the buffer of ob.updates
    worker,   \* where the worker goroutine is in run, and the call it serves
    hub,      \* the server's fan-out hub: subscriptions, their channels, Broadcast
    sup       \* the bot supervisor: the client's owned ids, the PnL, the bot

vars ==
    <<cfg, bids, asks, orders, seq, clock, last, calls, hist, tradesCh, stopped, feed,
      updatesCh, worker, hub, sup>>

\* The callers, the streams, the worker's position, the hub and the supervisor,
\* which the book's handlers do not touch.
ext == <<calls, hist, tradesCh, stopped, feed, updatesCh, worker, hub, sup>>

\* ------------------------------------------------------------ priceTimeQueue
\* Go slices are 0-based; q[i] of the code is At(q, i).
At(q, i) == q[i + 1]

Range(q) == {q[k] : k \in 1..Len(q)}

\* Less with the time order reversed: at one price the newest entry is first.
Less_newestFirst(q, i, j) ==
    LET a == At(q, i)
        b == At(q, j)
    IN  IF a.order.Price # b.order.Price
        THEN IF a.isBid THEN a.order.Price > b.order.Price
                        ELSE a.order.Price < b.order.Price
        ELSE IF a.order.Timestamp # b.order.Timestamp
             THEN a.order.Timestamp > b.order.Timestamp
             ELSE a.order.Sequence > b.order.Sequence

\* Less with the price order reversed: the worst price is first.
Less_worstPriceFirst(q, i, j) ==
    LET a == At(q, i)
        b == At(q, j)
    IN  IF a.order.Price # b.order.Price
        THEN IF a.isBid THEN a.order.Price < b.order.Price
                        ELSE a.order.Price > b.order.Price
        ELSE IF a.order.Timestamp # b.order.Timestamp
             THEN a.order.Timestamp < b.order.Timestamp
             ELSE a.order.Sequence < b.order.Sequence

Less(q, i, j) ==
    LET a == At(q, i)
        b == At(q, j)
    IN  IF a.order.Price # b.order.Price
        THEN IF a.isBid THEN a.order.Price > b.order.Price
                        ELSE a.order.Price < b.order.Price
        ELSE IF a.order.Timestamp # b.order.Timestamp
             THEN a.order.Timestamp < b.order.Timestamp
             ELSE a.order.Sequence < b.order.Sequence

\* Swap exchanging the entries and leaving their index fields as they were.
Swap_staleIndex(q, i, j) ==
    [k \in 1..Len(q) |->
        IF k = i + 1 THEN At(q, j)
        ELSE IF k = j + 1 THEN At(q, i)
        ELSE q[k]]

Swap(q, i, j) ==
    [k \in 1..Len(q) |->
        IF k = i + 1 THEN [At(q, j) EXCEPT !.index = i]
        ELSE IF k = j + 1 THEN [At(q, i) EXCEPT !.index = j]
        ELSE q[k]]

Push(q, entry) == Append(q, [entry EXCEPT !.index = Len(q)])

Pop(q) ==
    LET n == Len(q)
    IN  [q |-> SubSeq(q, 1, n - 1), entry |-> [q[n] EXCEPT !.index = -1]]

peek(q) == IF Len(q) = 0 THEN <<>> ELSE <<At(q, 0)>>

\* container/heap.up: the parent of j is (j-1)/2, which Go truncates to 0 for j = 0.
RECURSIVE up(_, _)
up(q, j) ==
    IF j = 0 THEN q
    ELSE LET i == (j - 1) \div 2
         IN  IF ~Less(q, j, i) THEN q ELSE up(Swap(q, i, j), i)

\* container/heap.down: returns the queue and the index the element i0 ended at
\* (down reports i > i0).
RECURSIVE down(_, _, _)
down(q, i, n) ==
    LET j1 == 2 * i + 1
    IN  IF j1 >= n THEN [q |-> q, i |-> i]
        ELSE LET j2 == j1 + 1
                 j == IF j2 < n /\ Less(q, j2, j1) THEN j2 ELSE j1
             IN  IF ~Less(q, j, i) THEN [q |-> q, i |-> i]
                 ELSE down(Swap(q, i, j), j, n)

\* heap.Fix left out: the entry stays where it was.
HeapFix_skipped(q, i) == q

HeapFix(q, i) ==
    LET d == down(q, i, Len(q))
    IN  IF d.i > i THEN d.q ELSE up(q, i)

HeapPush(q, entry) == up(Push(q, entry), Len(q))

HeapPop(q) ==
    LET n == Len(q) - 1
        d == down(Swap(q, 0, n), 0, n)
    IN  Pop(d.q)

HeapRemove(q, i) ==
    LET n == Len(q) - 1
    IN  IF n # i
        THEN LET s == Swap(q, i, n)
                 d == down(s, i, n)
             IN  Pop(IF d.i > i THEN d.q ELSE up(s, i))
        ELSE Pop(q)

remove(q, entry) == HeapRemove(q, entry.index)

RECURSIVE worstScan(_, _, _, _)
worstScan(q, isBid, i, worstIdx) ==
    IF i >= Len(q) THEN worstIdx
    ELSE LET p == At(q, i).order.Price
             w == At(q, worstIdx).order.Price
             later == At(q, i).order.Timestamp > At(q, worstIdx).order.Timestamp
             next == IF (IF isBid THEN p < w ELSE p > w) THEN i
                     ELSE IF p = w /\ later THEN i
                     ELSE worstIdx
         IN  worstScan(q, isBid, i + 1, next)

findWorstIndex(q, isBid) ==
    IF Len(q) = 0 THEN -1 ELSE worstScan(q, isBid, 0, 0)

DeleteKey(ord, id) == [k \in (DOMAIN ord) \ {id} |-> ord[k]]

PutKey(ord, id, e) == [k \in (DOMAIN ord) \cup {id} |-> IF k = id THEN e ELSE ord[k]]

\* trimDepth with the loop never entered: nothing is removed.
trimDepth_never(q, maxDepth, isBid, orderIndex) == [q |-> q, orders |-> orderIndex]

RECURSIVE trimDepth(_, _, _, _)
trimDepth(q, maxDepth, isBid, orderIndex) ==
    IF maxDepth > 0 /\ Len(q) > maxDepth
    THEN LET idx == findWorstIndex(q, isBid)
         IN  IF idx < 0 THEN [q |-> q, orders |-> orderIndex]
             ELSE LET r == HeapRemove(q, idx)
                  IN  trimDepth(r.q, maxDepth, isBid,
                                DeleteKey(orderIndex, r.entry.order.ID))
    ELSE [q |-> q, orders |-> orderIndex]

\* ------------------------------------------------------------------ OrderBook
\* An *orderEntry is an identity, eid; a new entry gets one no live entry has.
Eids(b, a) == {x.eid : x \in Range(b) \cup Range(a)}

NewEid(b, a) ==
    CHOOSE e \in 1..(Cardinality(Eids(b, a)) + 1) :
        e \notin Eids(b, a) /\ \A f \in 1..(e - 1) : f \in Eids(b, a)

Deref(b, a, e) == CHOOSE x \in Range(b) \cup Range(a) : x.eid = e

min(a, b) == IF a < b THEN a ELSE b

\* Both ids of a trade taken from the incoming order.
selectOrderID_incoming(incoming, resting, side) == incoming.ID

selectOrderID(incoming, resting, side) ==
    IF incoming.Side = side THEN incoming.ID ELSE resting.ID

\* The tick check applied to market orders too.
ValidateAdd_marketChecked(order) ==
    IF order.Symbol # cfg.Symbol THEN "SymbolMismatch"
    ELSE IF order.Quantity <= 0 THEN "InvalidQuantity"
    ELSE IF cfg.TickSize <= 0 THEN "TickAlignment"
    ELSE IF order.Price <= 0 \/ order.Price % cfg.TickSize # 0 THEN "TickAlignment"
    ELSE NoErr

ValidateAdd(order) ==
    IF order.Symbol # cfg.Symbol THEN "SymbolMismatch"
    ELSE IF order.Quantity <= 0 THEN "InvalidQuantity"
    ELSE IF order.Type = Limit
         THEN IF cfg.TickSize <= 0 THEN "TickAlignment"
              ELSE IF order.Price <= 0 \/ order.Price % cfg.TickSize # 0
                   THEN "TickAlignment"
                   ELSE NoErr
         ELSE NoErr

\* The loop of OrderBook.match, on m = [incoming, opposing, orders, trades,
\* steps]: trades are the sends on ob.trades, in order; steps records, for
\* each trade, which entry was the opposing top and what the incoming order
\* still had to fill.

\* The loop goes on: remaining > 0, the opposing queue has a top, and a limit
\* order's price reaches it.
\* The loop condition without the limit price check.
matchCond_noPriceCheck(incoming, opposing) ==
    incoming.Remaining > 0 /\ peek(opposing) # <<>>

matchCond(incoming, opposing) ==
    /\ incoming.Remaining > 0
    /\ peek(opposing) # <<>>
    /\ ~ /\ incoming.Type = Limit
         /\ \/ incoming.Side = Buy /\ incoming.Price < At(opposing, 0).order.Price
            \/ incoming.Side = Sell /\ incoming.Price > At(opposing, 0).order.Price

\* The trade priced at the incoming order's price.
tradeOf_incomingPrice(incoming, best, tradedQty) ==
    [Symbol |-> incoming.Symbol,
     BuyOrderID |-> selectOrderID(incoming, best.order, Buy),
     SellOrderID |-> selectOrderID(incoming, best.order, Sell),
     Price |-> incoming.Price,
     Quantity |-> tradedQty,
     Timestamp |-> clock]

\* The trade sized at what the incoming order still wanted.
tradeOf_incomingQuantity(incoming, best, tradedQty) ==
    [Symbol |-> incoming.Symbol,
     BuyOrderID |-> selectOrderID(incoming, best.order, Buy),
     SellOrderID |-> selectOrderID(incoming, best.order, Sell),
     Price |-> best.order.Price,
     Quantity |-> incoming.Remaining,
     Timestamp |-> clock]

tradeOf(incoming, best, tradedQty) ==
    [Symbol |-> incoming.Symbol,
     BuyOrderID |-> selectOrderID(incoming, best.order, Buy),
     SellOrderID |-> selectOrderID(incoming, best.order, Sell),
     Price |-> best.order.Price,
     Quantity |-> tradedQty,
     Timestamp |-> clock]

\* One iteration of the loop body.
matchStep(m) ==
    LET best == At(m.opposing, 0)
        tradedQty == min(m.incoming.Remaining, best.order.Remaining)
        opp2 == [m.opposing EXCEPT ![1].order.Remaining = @ - tradedQty]
        gone == (best.order.Remaining - tradedQty = 0)
    IN  [incoming |-> [m.incoming EXCEPT !.Remaining = @ - tradedQty],
         opposing |-> IF gone THEN HeapPop(opp2).q ELSE HeapFix(opp2, best.index),
         orders |-> IF gone THEN DeleteKey(m.orders, best.order.ID) ELSE m.orders,
         trades |-> Append(m.trades, tradeOf(m.incoming, best, tradedQty)),
         steps |-> Append(m.steps, [eid |-> best.eid,
                                    incRemaining |-> m.incoming.Remaining])]

RECURSIVE matchLoop(_)
matchLoop(m) ==
    IF matchCond(m.incoming, m.opposing) THEN matchLoop(matchStep(m)) ELSE m

\* The tail of OrderBook.match: a limit remainder is pushed on its own side,
\* indexed, and the side is trimmed.  m is the loop's result.
\* The tail of match without the order type check: any remainder is posted.
post_anyType(m, resting, e) ==
    IF m.incoming.Remaining > 0
    THEN trimDepth(HeapPush(resting, [eid |-> e, order |-> m.incoming, index |-> 0,
                                      isBid |-> (m.incoming.Side = Buy)]),
                   cfg.MaxDepth, m.incoming.Side = Buy,
                   PutKey(m.orders, m.incoming.ID, e))
    ELSE [q |-> resting, orders |-> m.orders]

post(m, resting, e) ==
    IF m.incoming.Remaining > 0 /\ m.incoming.Type = Limit
    THEN trimDepth(HeapPush(resting, [eid |-> e, order |-> m.incoming, index |-> 0,
                                      isBid |-> (m.incoming.Side = Buy)]),
                   cfg.MaxDepth, m.incoming.Side = Buy,
                   PutKey(m.orders, m.incoming.ID, e))
    ELSE [q |-> resting, orders |-> m.orders]

matchResult(m, t) ==
    [incoming |-> m.incoming, opposing |-> m.opposing, resting |-> t.q,
     orders |-> t.orders, trades |-> m.trades, steps |-> m.steps]

matchPost(m, resting) ==
    matchResult(m, post(m, resting, NewEid(resting, m.opposing)))

\* OrderBook.match.
match(incoming, opposing, resting, ord) ==
    matchPost(matchLoop([incoming |-> incoming, opposing |-> opposing, orders |-> ord,
                         trades |-> <<>>, steps |-> <<>>]),
              resting)

snapshotView(b, a) ==
    [BestBid |-> IF peek(b) = <<>> THEN <<>> ELSE <<peek(b)[1].order>>,
     BestAsk |-> IF peek(a) = <<>> THEN <<>> ELSE <<peek(a)[1].order>>]

NoOrder ==
    [ID |-> "", Symbol |-> "", Side |-> Buy, Type |-> Limit, Price |-> 0,
     Quantity |-> 0, Remaining |-> 0, Timestamp |-> 0, Sequence |-> 0]

\* What is known of the command served last: the request (op, id, order), the
\* error sent on req.resp, the sends on ob.trades (with, per trade, the entry
\* that was the opposing top), the view offered to ob.updates and the view
\* sent on req.view.
Events(kind, items) == [i \in 1..Len(items) |-> [kind |-> kind, item |-> items[i]]]

\* The outputs of one command with the view offered to ob.updates first.
outputs_viewFirst(err, trades, published, view) ==
    Events("view", published) \o Events("trade", trades) \o Events("snapshot", view)
      \o Events("reply", <<err>>)

\* The outputs of one command in the order run produces them: the sends on
\* ob.trades made inside the handler, the view of a snapshot, the error on
\* req.resp, and then the view publishView offers to ob.updates.
outputs(err, trades, published, view) ==
    Events("trade", trades) \o Events("snapshot", view) \o Events("reply", <<err>>)
      \o Events("view", published)

Reply(op, order, err, trades, steps, published, view) ==
    [op |-> op, id |-> order.ID, order |-> order, err |-> err,
     trades |-> trades, steps |-> steps, published |-> published, view |-> view,
     out |-> outputs(err, trades, published, view)]

\* The book a command leaves: both queues, the index and the match outputs.
bookOfAdd(m, side) ==
    [bids |-> IF side = Buy THEN m.resting ELSE m.opposing,
     asks |-> IF side = Buy THEN m.opposing ELSE m.resting,
     orders |-> m.orders, incoming |-> m.incoming, trades |-> m.trades,
     steps |-> m.steps]

\* processAdd past validation: the order is stamped and matched.
processAdd(o) ==
    bookOfAdd(IF o.Side = Buy THEN match(o, asks, bids, orders)
                              ELSE match(o, bids, asks, orders), o.Side)

\* The order stamped with the counter as it was, not incremented.
stamp_stale(order) ==
    [order EXCEPT !.Sequence = seq, !.Timestamp = clock,
                  !.Remaining = order.Quantity]

stamp(order) ==
    [order EXCEPT !.Sequence = seq + 1, !.Timestamp = clock,
                  !.Remaining = order.Quantity]

\* A command that drew a sequence number is done: the book is r.
Commit(op, r) ==
    /\ seq' = seq + 1
    /\ bids' = r.bids
    /\ asks' = r.asks
    /\ orders' = r.orders
    /\ last' = Reply(op, r.incoming, NoErr, r.trades, r.steps,
                     <<snapshotView(r.bids, r.asks)>>, <<>>)
    /\ UNCHANGED <<cfg, clock>>

\* requestAdd with publishView called whatever processAdd returned.
SubmitOrder_publishAlways(order) ==
    IF ValidateAdd(order) # NoErr
    THEN /\ last' = Reply("submit", order, ValidateAdd(order), <<>>, <<>>,
                          <<snapshotView(bids, asks)>>, <<>>)
         /\ UNCHANGED <<cfg, bids, asks, orders, seq, clock>>
    ELSE Commit("submit", processAdd(stamp(order)))

\* requestAdd: processAdd, the reply, and publishView when it succeeded.
SubmitOrder(order) ==
    IF ValidateAdd(order) # NoErr
    THEN /\ last' = Reply("submit", order, ValidateAdd(order), <<>>, <<>>, <<>>, <<>>)
         /\ UNCHANGED <<cfg, bids, asks, orders, seq, clock>>
    ELSE Commit("submit", processAdd(stamp(order)))

Submit ==
    \E order \in LimitInputs \cup MarketInputs :
        SubmitOrder(order) /\ seq' <= MaxSeq /\ UNCHANGED ext

SubmitAny ==
    \E order \in PlainInputs \cup RejectedInputs :
        SubmitOrder(order) /\ seq' <= MaxSeq /\ UNCHANGED ext

\* processCancel taking the top of the entry's queue instead of the entry.
processCancel_top(id, entry) ==
    [bids |-> IF entry.isBid THEN HeapPop(bids).q ELSE bids,
     asks |-> IF entry.isBid THEN asks ELSE HeapPop(asks).q,
     orders |-> DeleteKey(orders, id)]

\* processCancel on the entry the index holds for id.
processCancel(id, entry) ==
    [bids |-> IF entry.isBid THEN remove(bids, entry).q ELSE bids,
     asks |-> IF entry.isBid THEN asks ELSE remove(asks, entry).q,
     orders |-> DeleteKey(orders, id)]

Request(id) == [NoOrder EXCEPT !.ID = id]

\* requestCancel without the call of publishView.
CommitCancel_silent(id, r) ==
    /\ bids' = r.bids
    /\ asks' = r.asks
    /\ orders' = r.orders
    /\ last' = Reply("cancel", Request(id), NoErr, <<>>, <<>>, <<>>, <<>>)
    /\ UNCHANGED <<cfg, seq, clock>>

CommitCancel(id, r) ==
    /\ bids' = r.bids
    /\ asks' = r.asks
    /\ orders' = r.orders
    /\ last' = Reply("cancel", Request(id), NoErr, <<>>, <<>>,
                     <<snapshotView(r.bids, r.asks)>>, <<>>)
    /\ UNCHANGED <<cfg, seq, clock>>

\* requestCancel: processCancel, the reply, and publishView when it succeeded.
CancelOrder(id) ==
    IF id \notin DOMAIN orders
    THEN /\ last' = Reply("cancel", Request(id), "NotFound", <<>>, <<>>, <<>>, <<>>)
         /\ UNCHANGED <<cfg, bids, asks, orders, seq, clock>>
    ELSE CommitCancel(id, processCancel(id, Deref(bids, asks, orders[id])))

Cancel == \E id \in DOMAIN orders : CancelOrder(id) /\ UNCHANGED ext

CancelAny == \E id \in Ids : CancelOrder(id) /\ UNCHANGED ext

\* The entry at index i of q with its order rewritten in place.
SetOrder(q, i, o) == [q EXCEPT ![i + 1].order = o]

SetEntry(entry, o) ==
    [bids |-> IF entry.isBid THEN SetOrder(bids, entry.index, o) ELSE bids,
     asks |-> IF entry.isBid THEN asks ELSE SetOrder(asks, entry.index, o)]

\* The new quantity written without lowering the remaining quantity.
amendQty_keepRemaining(o, newQty) ==
    IF newQty = <<>> THEN o ELSE [o EXCEPT !.Quantity = newQty[1]]

\* processAmend, the quantity: written to the entry before the price is checked.
amendQty(o, newQty) ==
    IF newQty = <<>> THEN o
    ELSE [o EXCEPT !.Quantity = newQty[1],
                   !.Remaining = IF @ > newQty[1] THEN newQty[1] ELSE @]

amendPriceBad(newPrice) ==
    /\ newPrice # <<>>
    /\ \/ newPrice[1] <= 0
       \/ cfg.TickSize <= 0
       \/ newPrice[1] % cfg.TickSize # 0

\* processAmend without the fresh sequence and timestamp: only the price is set.
amendStamp_priceOnly(o, newPrice) ==
    [o EXCEPT !.Price = IF newPrice = <<>> THEN @ ELSE newPrice[1]]

\* processAmend without the write of the price.
amendStamp_keepPrice(o, newPrice) ==
    [o EXCEPT !.Sequence = seq + 1, !.Timestamp = clock]

\* processAmend, the rest: price, fresh sequence and timestamp.
amendStamp(o, newPrice) ==
    [o EXCEPT !.Price = IF newPrice = <<>> THEN @ ELSE newPrice[1],
              !.Sequence = seq + 1,
              !.Timestamp = clock]

\* heap.Fix at the entry's index, then trimDepth, on the entry's side.
fixAndTrim(q, entry, o) ==
    trimDepth(HeapFix(SetOrder(q, entry.index, o), entry.index),
              cfg.MaxDepth, entry.isBid, orders)

bookOfAmend(entry, t, id) ==
    [bids |-> IF entry.isBid THEN t.q ELSE bids,
     asks |-> IF entry.isBid THEN asks ELSE t.q,
     orders |-> t.orders, incoming |-> Request(id), trades |-> <<>>, steps |-> <<>>]

\* processAmend as cancel and resubmit: the entry is removed and the amended
\* order is matched against the opposing queue like a new one.
processAmend_rematch(id, entry, newPrice, newQty) ==
    bookOfAdd(IF entry.isBid
              THEN match(amendStamp(amendQty(entry.order, newQty), newPrice),
                         asks, remove(bids, entry).q, DeleteKey(orders, id))
              ELSE match(amendStamp(amendQty(entry.order, newQty), newPrice),
                         bids, remove(asks, entry).q, DeleteKey(orders, id)),
              entry.order.Side)

processAmend(id, entry, newPrice, newQty) ==
    bookOfAmend(entry,
                fixAndTrim(IF entry.isBid THEN bids ELSE asks, entry,
                           amendStamp(amendQty(entry.order, newQty), newPrice)),
                id)

AmendFailed(id, err) ==
    last' = Reply("amend", Request(id), err, <<>>, <<>>, <<>>, <<>>)

AmendHalfDone(id, r) ==
    /\ AmendFailed(id, "TickAlignment")
    /\ bids' = r.bids
    /\ asks' = r.asks
    /\ UNCHANGED <<cfg, orders, seq, clock>>

AmendFound(id, entry, newPrice, newQty) ==
    IF amendPriceBad(newPrice)
    THEN AmendHalfDone(id, SetEntry(entry, amendQty(entry.order, newQty)))
    ELSE Commit("amend", processAmend(id, entry, newPrice, newQty))

\* requestAmend: processAmend, the reply, and publishView when it succeeded.
\* newPrice and newQty are <<>> for a nil pointer and <<v>> otherwise.
AmendOrder(id, newPrice, newQty) ==
    IF id \notin DOMAIN orders
    THEN AmendFailed(id, "NotFound") /\ UNCHANGED <<cfg, bids, asks, orders, seq, clock>>
    ELSE IF newQty # <<>> /\ newQty[1] <= 0
    THEN AmendFailed(id, "InvalidQuantity")
         /\ UNCHANGED <<cfg, bids, asks, orders, seq, clock>>
    ELSE AmendFound(id, Deref(bids, asks, orders[id]), newPrice, newQty)

\* Amends of resting orders that change the book: the accepted ones, and the
\* ones rejected for their price after the quantity was written.
Amend ==
    \E id \in DOMAIN orders, p \in AmendPrices, n \in AmendQtys \ {<<0>>} :
        /\ p = <<3>> => n # <<>>
        /\ AmendOrder(id, p, n)
        /\ seq' <= MaxSeq
        /\ UNCHANGED ext

AmendAny ==
    \E id \in Ids, p \in AmendPrices, n \in AmendQtys :
        AmendOrder(id, p, n) /\ seq' <= MaxSeq /\ UNCHANGED ext

\* requestSnapshot followed by publishView, as the other cases of run are.
Snapshot_publishing ==
    /\ last' = Reply("snapshot", NoOrder, NoErr, <<>>, <<>>, <<snapshotView(bids, asks)>>,
                     <<snapshotView(bids, asks)>>)
    /\ UNCHANGED <<cfg, bids, asks, orders, seq, clock>>

\* requestSnapshot: handleSnapshot replies with a copy of the top of book.
Snapshot ==
    /\ last' = Reply("snapshot", NoOrder, NoErr, <<>>, <<>>, <<>>,
                     <<snapshotView(bids, asks)>>)
    /\ UNCHANGED <<cfg, bids, asks, orders, seq, clock>>

SnapshotAny == Snapshot /\ UNCHANGED ext

\* Time passes between commands: ob.now returns a later instant.
Tick ==
    /\ clock < MaxTime
    /\ clock' = clock + 1
    /\ UNCHANGED <<cfg, bids, asks, orders, seq, last>>
    /\ UNCHANGED ext

\* newHub: no subscription; no Broadcast under way.  A subscription that was
\* never made has no channel (cap 0, pc "none").
newHub ==
    [subs |-> {},
     ch |-> [s \in Subs |-> [cap |-> 0, buf |-> <<>>, closed |-> FALSE]],
     pc |-> [s \in Subs |-> "none"],
     bc |-> [pc |-> "idle", value |-> 0, todo |-> {}, sent |-> 0],
     panicked |-> FALSE]

\* NewSupervisor with NewThrottledClient: no id is owned, the PnL is flat; the
\* bot is in no call.
NewSupervisor ==
    [owned |-> {}, position |-> 0, cash |-> 0, orderSeq |-> 0,
     bot |-> [b \in Bots |-> [pc |-> "idle", id |-> ""]]]

\* No caller is in a call; ob.trades is open and empty.
NoCall == [phase |-> "idle", ticket |-> 0, req |-> <<>>, err |-> NoErr, view |-> <<>>]

InitExt ==
    /\ calls = [c \in Callers |-> NoCall]
    /\ hist = [n |-> 0, log |-> <<>>, returned |-> {}, after |-> <<>>]
    /\ tradesCh = <<>>
    /\ stopped = FALSE
    /\ feed = [sent |-> <<>>, got |-> <<>>, atStop |-> 0, latest |-> <<>>]
    /\ updatesCh = <<>>
    /\ worker = [pc |-> "recv", caller |-> "", sent |-> 0]
    /\ hub = newHub
    /\ sup = NewSupervisor

\* NewOrderBook.
Init ==
    /\ cfg \in [Symbol : {BookSymbol}, TickSize : TickSizes, MaxDepth : MaxDepths]
    /\ bids = <<>>
    /\ asks = <<>>
    /\ orders = <<>>
    /\ seq = 0
    /\ clock = 0
    /\ last = Reply("new", NoOrder, NoErr, <<>>, <<>>, <<>>, <<>>)
    /\ InitExt

\* Accepted traffic under a clock that advances.
Next == Submit \/ Cancel \/ Amend \/ Tick

Spec == Init /\ [][Next]_vars

\* Every reply, rejections and snapshots included, under a constant clock.
NextErr == SubmitAny \/ CancelAny \/ AmendAny \/ SnapshotAny

SpecErr == Init /\ [][NextErr]_vars

\* -------------------------------------------------------------------- callers
\* The requests of the concurrent callers: two orders that trade with each
\* other, a cancel, an amend and a snapshot.
ConcRequests ==
    {[op |-> "submit", order |-> Order("a", BookSymbol, Buy, Limit, 2, 1),
      price |-> <<>>, qty |-> <<>>],
     [op |-> "submit", order |-> Order("b", BookSymbol, Sell, Limit, 2, 1),
      price |-> <<>>, qty |-> <<>>],
     [op |-> "cancel", order |-> Request("a"), price |-> <<>>, qty |-> <<>>],
     [op |-> "amend", order |-> Request("a"), price |-> <<4>>, qty |-> <<>>],
     [op |-> "snapshot", order |-> NoOrder, price |-> <<>>, qty |-> <<>>]}

\* A caller enters an API method: it builds the request and blocks sending it
\* on the unbuffered ob.reqCh.  The history notes which calls had returned.
Invoke(c) ==
    \E r \in ConcRequests :
        /\ calls[c].phase = "idle"
        /\ hist.n < MaxCalls
        /\ calls' = [calls EXCEPT ![c] = [phase |-> "sending", ticket |-> hist.n + 1,
                                         req |-> r, err |-> NoErr, view |-> <<>>]]
        /\ hist' = [hist EXCEPT !.n = @ + 1, !.after = Append(@, hist.returned)]
        /\ UNCHANGED <<cfg, bids, asks, orders, seq, clock, last, tradesCh, stopped, feed,
                       updatesCh, worker, hub, sup>>

\* The switch of run on the request type.
Dispatch(r) ==
    \/ r.op = "submit" /\ SubmitOrder(r.order)
    \/ r.op = "cancel" /\ CancelOrder(r.order.ID)
    \/ r.op = "amend" /\ AmendOrder(r.order.ID, r.price, r.qty)
    \/ r.op = "snapshot" /\ Snapshot

\* The worker receives the request of caller c from ob.reqCh, serves it to
\* completion and leaves the reply on the call's resp (and view) channel.
Serve(c) ==
    /\ calls[c].phase = "sending"
    /\ Dispatch(calls[c].req)
    /\ seq' <= MaxSeq
    /\ calls' = [calls EXCEPT ![c].phase = "replied", ![c].err = last'.err,
                             ![c].view = last'.view]
    /\ hist' = [hist EXCEPT !.log = Append(@, calls[c].ticket)]
    /\ UNCHANGED <<tradesCh, stopped, feed, updatesCh, worker, hub, sup>>

\* The API method returning although the request was not received yet.
Return_beforeReply(c) ==
    /\ calls[c].phase = "sending"
    /\ hist' = [hist EXCEPT !.returned = @ \cup {calls[c].ticket}]
    /\ UNCHANGED <<cfg, bids, asks, orders, seq, clock, last, calls, tradesCh, stopped, feed,
                   updatesCh, worker, hub, sup>>

\* The caller receives the reply from resp and the API method returns.
Return(c) ==
    /\ calls[c].phase = "replied"
    /\ calls' = [calls EXCEPT ![c] = NoCall]
    /\ hist' = [hist EXCEPT !.returned = @ \cup {calls[c].ticket}]
    /\ UNCHANGED <<cfg, bids, asks, orders, seq, clock, last, tradesCh, stopped, feed,
                   updatesCh, worker, hub, sup>>

NextConc ==
    \/ \E c \in Callers : Invoke(c)
    \/ \E c \in Callers : Serve(c)
    \/ \E c \in Callers : Return(c)

SpecConc == Init /\ [][NextConc]_vars

\* ---------------------------------------------------------------- trade stream
\* requestAdd with its sends on ob.trades: each trade of the match goes into
\* the buffer, in order; a send blocks while the buffer is full, so the
\* handler completes once all its trades are in.  A stopped worker serves
\* nothing.
SubmitStreaming ==
    \E order \in StreamInputs :
        /\ ~stopped
        /\ SubmitOrder(order)
        /\ seq' <= MaxSeq
        /\ Len(tradesCh) + Len(last'.trades) <= TradesCap
        /\ tradesCh' = tradesCh \o last'.trades
        /\ feed' = [feed EXCEPT !.sent = @ \o last'.trades]
        /\ UNCHANGED <<calls, hist, stopped, updatesCh, worker, hub, sup>>

\* The consumer of Trades() receives the oldest buffered trade; a closed
\* channel still yields what it buffered.
RecvTrade ==
    /\ tradesCh # <<>>
    /\ tradesCh' = Tail(tradesCh)
    /\ feed' = [feed EXCEPT !.got = Append(@, Head(tradesCh))]
    /\ UNCHANGED <<cfg, bids, asks, orders, seq, clock, last, calls, hist, stopped,
                   updatesCh, worker, hub, sup>>

\* requestStop with the buffer dropped on close.
Stop_discarding ==
    /\ ~stopped
    /\ stopped' = TRUE
    /\ tradesCh' = <<>>
    /\ feed' = [feed EXCEPT !.atStop = Len(tradesCh)]
    /\ UNCHANGED <<cfg, bids, asks, orders, seq, clock, last, calls, hist, updatesCh, worker, hub, sup>>

\* Stop: the worker serves requestStop, closes ob.trades and returns.
Stop ==
    /\ ~stopped
    /\ stopped' = TRUE
    /\ tradesCh' = tradesCh
    /\ feed' = [feed EXCEPT !.atStop = Len(tradesCh)]
    /\ UNCHANGED <<cfg, bids, asks, orders, seq, clock, last, calls, hist, updatesCh, worker, hub, sup>>

NextStream == SubmitStreaming \/ RecvTrade \/ Stop

\* The consumer keeps receiving.
SpecStream == Init /\ [][NextStream]_vars /\ WF_vars(RecvTrade)

\* ------------------------------------------------------------------ worker loop
\* The run loop step by step, with its channels: the worker receives a request
\* from reqCh and runs its handler; the handler's trades go on ob.trades one
\* send at a time, each send waiting while the buffer is full; then the reply
\* goes on the request's resp (and view) channel, and publishView offers the
\* view to ob.updates.  Only the worker reads or writes the book, so the
\* handler's writes are taken at the receive.

\* The requests of the two callers: c2 sends unit sells and requests that
\* are rejected, takes snapshots and calls Stop; c1 sends one bid that crosses
\* more asks than the trade buffer holds, once that many asks rest.
BigBid ==
    [op |-> "submit", order |-> Order("a", BookSymbol, Buy, Limit, 2, TradesCap + 1),
     price |-> <<>>, qty |-> <<>>]

SmallSell ==
    [op |-> "submit", order |-> Order("b", BookSymbol, Sell, Limit, 2, 1),
     price |-> <<>>, qty |-> <<>>]

SnapshotReq == [op |-> "snapshot", order |-> NoOrder, price |-> <<>>, qty |-> <<>>]

StopReq == [op |-> "stop", order |-> NoOrder, price |-> <<>>, qty |-> <<>>]

\* Requests the handlers reject: a sell off the tick, a sell of quantity 0, a
\* cancel of an id that never rests and an amend to a price off the tick.
BadRequests ==
    {[op |-> "submit", order |-> Order("b", BookSymbol, Sell, Limit, 3, 1),
      price |-> <<>>, qty |-> <<>>],
     [op |-> "submit", order |-> Order("b", BookSymbol, Sell, Limit, 2, 0),
      price |-> <<>>, qty |-> <<>>],
     [op |-> "cancel", order |-> Request("a"), price |-> <<>>, qty |-> <<>>],
     [op |-> "amend", order |-> Request("b"), price |-> <<3>>, qty |-> <<>>]}

WorkRequests(c) ==
    IF c = "c1" THEN {BigBid} ELSE {SmallSell, SnapshotReq, StopReq} \cup BadRequests

\* Submits sent and not yet received by the worker.
PendingSubmits ==
    {c \in Callers : calls[c].phase = "sending" /\ calls[c].req.op = "submit"}

\* The buffer of the resp channel of caller c's call: it holds the reply from
\* the worker's send until the caller receives it, for good when the caller
\* has given up.
RespBuf(c) == IF calls[c].phase \in {"replied", "lost"} THEN <<calls[c].err>> ELSE <<>>

\* A caller enters an API method and blocks sending its request on reqCh.
Call(c) ==
    \E r \in WorkRequests(c) :
        /\ calls[c].phase = "idle"
        /\ r.op = "submit" => seq + Cardinality(PendingSubmits) < MaxWorkSeq
        /\ r = BigBid => Len(asks) > TradesCap
        /\ calls' = [calls EXCEPT ![c] = [NoCall EXCEPT !.phase = "sending", !.req = r]]
        /\ UNCHANGED <<cfg, bids, asks, orders, seq, clock, last, hist, tradesCh, stopped,
                       feed, updatesCh, worker, hub, sup>>

\* A caller racing the reply against its own deadline gives up: nobody will
\* receive from the call's resp and view channels.
Abandon(c) ==
    /\ calls[c].phase = "waiting"
    /\ calls' = [calls EXCEPT ![c].phase = "abandoned"]
    /\ UNCHANGED <<cfg, bids, asks, orders, seq, clock, last, hist, tradesCh, stopped,
                   feed, updatesCh, worker, hub, sup>>

\* A send on reqCh after run closed it panics in the caller's goroutine.
Panic(c) ==
    /\ stopped
    /\ calls[c].phase = "sending"
    /\ calls' = [calls EXCEPT ![c].phase = "panicked"]
    /\ UNCHANGED <<cfg, bids, asks, orders, seq, clock, last, hist, tradesCh, stopped,
                   feed, updatesCh, worker, hub, sup>>

\* run receives a request other than requestStop and calls its handler.
Receive(c) ==
    /\ worker.pc = "recv"
    /\ calls[c].phase = "sending"
    /\ calls[c].req.op # "stop"
    /\ Dispatch(calls[c].req)
    /\ calls' = [calls EXCEPT ![c].phase = "waiting"]
    /\ worker' = [pc |-> IF last'.trades = <<>> THEN "reply" ELSE "send",
                  caller |-> c, sent |-> 0]
    /\ UNCHANGED <<hist, tradesCh, stopped, feed, updatesCh, hub, sup>>

\* requestStop that closes the channels and goes on ranging over reqCh.
ReceiveStop_keepsServing(c) ==
    /\ worker.pc = "recv"
    /\ calls[c].phase = "sending"
    /\ calls[c].req.op = "stop"
    /\ stopped' = TRUE
    /\ worker' = [pc |-> "recv", caller |-> "", sent |-> 0]
    /\ calls' = [calls EXCEPT ![c] = NoCall]
    /\ feed' = [feed EXCEPT !.atStop = Len(tradesCh)]
    /\ UNCHANGED <<cfg, bids, asks, orders, seq, clock, last, hist, tradesCh, updatesCh, hub, sup>>

\* run receives requestStop: it closes ob.trades, ob.updates and reqCh and
\* returns.  Stop does not wait for a reply.
ReceiveStop(c) ==
    /\ worker.pc = "recv"
    /\ calls[c].phase = "sending"
    /\ calls[c].req.op = "stop"
    /\ stopped' = TRUE
    /\ worker' = [pc |-> "exited", caller |-> "", sent |-> 0]
    /\ calls' = [calls EXCEPT ![c] = NoCall]
    /\ feed' = [feed EXCEPT !.atStop = Len(tradesCh)]
    /\ UNCHANGED <<cfg, bids, asks, orders, seq, clock, last, hist, tradesCh, updatesCh, hub, sup>>

\* match sends the next trade on ob.trades; the send waits for room.
SendTrade ==
    /\ worker.pc = "send"
    /\ Len(tradesCh) < TradesCap
    /\ tradesCh' = Append(tradesCh, last.trades[worker.sent + 1])
    /\ feed' = [feed EXCEPT !.sent = Append(@, last.trades[worker.sent + 1])]
    /\ worker' = [worker EXCEPT !.sent = @ + 1,
                                !.pc = IF worker.sent + 1 = Len(last.trades)
                                       THEN "reply" ELSE "send"]
    /\ UNCHANGED <<cfg, bids, asks, orders, seq, clock, last, calls, hist, stopped,
                   updatesCh, hub, sup>>

\* The reply sent on a resp channel without a buffer: the send needs the
\* caller receiving.
SendReply_unbuffered ==
    /\ worker.pc = "reply"
    /\ calls[worker.caller].phase = "waiting"
    /\ calls' = [calls EXCEPT ![worker.caller].phase = "replied",
                             ![worker.caller].err = last.err,
                             ![worker.caller].view = last.view]
    /\ worker' = [worker EXCEPT !.pc = IF last.published = <<>> THEN "recv" ELSE "publish",
                                !.caller = IF last.published = <<>> THEN "" ELSE @]
    /\ UNCHANGED <<cfg, bids, asks, orders, seq, clock, last, hist, tradesCh, stopped,
                   feed, updatesCh, hub, sup>>

\* run returning when a handler reports an error.
SendReply_fatal ==
    /\ worker.pc = "reply"
    /\ Len(RespBuf(worker.caller)) < RespCap
    /\ calls' = [calls EXCEPT ![worker.caller].phase =
                                 IF @ = "abandoned" THEN "lost" ELSE "replied",
                             ![worker.caller].err = last.err,
                             ![worker.caller].view = last.view]
    /\ worker' = [worker EXCEPT !.pc = IF last.err # NoErr THEN "exited"
                                       ELSE IF last.published = <<>> THEN "recv"
                                       ELSE "publish",
                                !.caller = IF last.published = <<>> THEN "" ELSE @]
    /\ UNCHANGED <<cfg, bids, asks, orders, seq, clock, last, hist, tradesCh, stopped,
                   feed, updatesCh, hub, sup>>

\* run sends the handler's error on req.resp (handleSnapshot: the view on
\* req.view, then nil on req.resp); both channels have one slot.
SendReply ==
    /\ worker.pc = "reply"
    /\ Len(RespBuf(worker.caller)) < RespCap
    /\ calls' = [calls EXCEPT ![worker.caller].phase =
                                 IF @ = "abandoned" THEN "lost" ELSE "replied",
                             ![worker.caller].err = last.err,
                             ![worker.caller].view = last.view]
    /\ worker' = [worker EXCEPT !.pc = IF last.published = <<>> THEN "recv" ELSE "publish",
                                !.caller = IF last.published = <<>> THEN "" ELSE @]
    /\ UNCHANGED <<cfg, bids, asks, orders, seq, clock, last, hist, tradesCh, stopped,
                   feed, updatesCh, hub, sup>>

\* publishView as a plain send: it waits while ob.updates is full.
Publish_blocking ==
    /\ worker.pc = "publish"
    /\ Len(updatesCh) < UpdatesCap
    /\ updatesCh' = Append(updatesCh, last.published[1])
    /\ feed' = [feed EXCEPT !.latest = last.published]
    /\ worker' = [worker EXCEPT !.pc = "recv", !.caller = ""]
    /\ UNCHANGED <<cfg, bids, asks, orders, seq, clock, last, calls, hist, tradesCh,
                   stopped, hub, sup>>

\* publishView: the view goes on ob.updates when there is room, and is
\* dropped otherwise (select with default).
Publish ==
    /\ worker.pc = "publish"
    /\ updatesCh' = IF Len(updatesCh) < UpdatesCap
                    THEN Append(updatesCh, last.published[1]) ELSE updatesCh
    /\ feed' = [feed EXCEPT !.latest = last.published]
    /\ worker' = [worker EXCEPT !.pc = "recv", !.caller = ""]
    /\ UNCHANGED <<cfg, bids, asks, orders, seq, clock, last, calls, hist, tradesCh,
                   stopped, hub, sup>>

NextWork ==
    \/ \E c \in Callers : Call(c)
    \/ \E c \in Callers : Receive(c)
    \/ \E c \in Callers : ReceiveStop(c)
    \/ \E c \in Callers : Panic(c)
    \/ \E c \in Callers : Abandon(c)
    \/ \E c \in Callers : Return(c)
    \/ SendTrade
    \/ SendReply
    \/ Publish
    \/ RecvTrade

\* A book without a depth limit.
InitWork == Init /\ cfg.MaxDepth = 0

\* The worker is ready to receive the request caller c is sending.
Receivable(c) ==
    worker.pc = "recv" /\ calls[c].phase = "sending" /\ calls[c].req.op # "stop"

\* The request of caller c goes from the caller to the worker.
Received(c) == calls[c].phase = "sending" /\ calls'[c].phase = "waiting"

\* Strong fairness of Receive(c), with its enabling condition written out:
\* the senders blocked on reqCh are served in their turn.
FairReceive(c) == ([]<>Receivable(c)) => []<><<Received(c)>>_vars

\* The worker runs, the trade consumer keeps receiving, and a caller blocked
\* on reqCh is received from in its turn.
SpecWork ==
    /\ InitWork
    /\ [][NextWork]_vars
    /\ WF_vars(SendTrade) /\ WF_vars(SendReply) /\ WF_vars(Publish) /\ WF_vars(RecvTrade)
    /\ \A c \in Callers : FairReceive(c)

\* ------------------------------------------------------------- returned views
\* A BookView holds two *Order pointers.  The object a pointer leads to is
\* written [live, order]: live is the identity of the book entry whose order
\* the pointer shares, 0 when the object belongs to the view alone; order is
\* the object's content when it belongs to the view.

\* The pointer set to the live order itself (snapshot.BestBid = best.order).
topCopy_shared(q) ==
    IF peek(q) = <<>> THEN <<>>
    ELSE <<[live |-> peek(q)[1].eid, order |-> peek(q)[1].order]>>

\* copy := *best.order; snapshot.BestBid = &copy.
topCopy(q) ==
    IF peek(q) = <<>> THEN <<>> ELSE <<[live |-> 0, order |-> peek(q)[1].order]>>

\* snapshotView with the pointers it returns.
snapshotPtrs(b, a) == [BestBid |-> topCopy(b), BestAsk |-> topCopy(a)]

IsLive(ref, b, a) == ref.live # 0 /\ ref.live \in Eids(b, a)

\* What a reader of the view finds behind its pointers, given the book.
ReadRef(refs, b, a) ==
    IF refs = <<>> THEN <<>>
    ELSE IF IsLive(refs[1], b, a) THEN <<Deref(b, a, refs[1].live).order>>
    ELSE <<refs[1].order>>

ReadView(v, b, a) ==
    [BestBid |-> ReadRef(v.BestBid, b, a), BestAsk |-> ReadRef(v.BestAsk, b, a)]

\* A command served to completion.
SnapCommand ==
    \E r \in ConcRequests : Dispatch(r) /\ seq' <= MaxSeq /\ UNCHANGED ext

\* Caller c calls Snapshot and keeps the view it returns.
TakeSnapshot(c) ==
    /\ Snapshot
    /\ calls' = [calls EXCEPT ![c].view = <<snapshotPtrs(bids, asks)>>]
    /\ UNCHANGED <<hist, tradesCh, stopped, feed, updatesCh, worker, hub, sup>>

\* Caller c writes a field of a view it holds (view.BestBid.Price = 1): the
\* write lands in the object the pointer leads to.
WriteView(c) ==
    \E side \in {"BestBid", "BestAsk"} :
        /\ calls[c].view # <<>>
        /\ calls[c].view[1][side] # <<>>
        /\ LET ref == calls[c].view[1][side][1]
               new == [ReadRef(<<ref>>, bids, asks)[1] EXCEPT !.Price = 1]
           IN  IF IsLive(ref, bids, asks)
               THEN /\ bids' = SetEntry(Deref(bids, asks, ref.live), new).bids
                    /\ asks' = SetEntry(Deref(bids, asks, ref.live), new).asks
                    /\ calls' = calls
               ELSE /\ calls' = [calls EXCEPT ![c].view[1][side][1].order = new]
                    /\ UNCHANGED <<bids, asks>>
        /\ UNCHANGED <<cfg, orders, seq, clock, last, hist, tradesCh, stopped, feed,
                       updatesCh, worker, hub, sup>>

NextSnap ==
    \/ SnapCommand
    \/ \E c \in Callers : TakeSnapshot(c)
    \/ \E c \in Callers : WriteView(c)

SpecSnap == Init /\ [][NextSnap]_vars

\* The validation of processAdd taken alone: one request, drawn from
\* ValidationInputs, is served by a new book of any tick size.
InitValidate ==
    /\ cfg \in [Symbol : {BookSymbol}, TickSize : ValidationTickSizes, MaxDepth : MaxDepths]
    /\ bids = <<>>
    /\ asks = <<>>
    /\ orders = <<>>
    /\ seq = 0
    /\ clock = 0
    /\ last \in {Reply("request", o, NoErr, <<>>, <<>>, <<>>, <<>>) : o \in ValidationInputs}
    /\ InitExt

ServeRequest ==
    last.op = "request" /\ SubmitOrder(last.order) /\ seq' <= MaxSeq /\ UNCHANGED ext

SpecValidate == InitValidate /\ [][ServeRequest]_vars

\* ------------------------------------------------------------------ hub
\* The server's fan-out hub.  h.mu is not a variable: the sections Subscribe and
\* Unsubscribe run under Lock are one step each, which waits while Broadcast
\* holds RLock (hub.bc.pc = "iter"); Broadcast holds RLock over its whole
\* loop, one subscription a step.

\* The engine's variables, which the hub and the stream handlers leave alone.
engineVars ==
    <<cfg, bids, asks, orders, seq, clock, last, calls, hist, tradesCh, stopped, feed,
      updatesCh, worker>>

\* The writer's Lock is free: no Broadcast holds RLock.
Lockable == hub.bc.pc # "iter"

\* hub.Subscribe(buffer), called by a stream handler.
Subscribe(s, buffer) ==
    /\ hub.pc[s] = "none"
    /\ Lockable
    /\ hub' = [hub EXCEPT !.ch[s] = [cap |-> buffer, buf |-> <<>>, closed |-> FALSE],
                          !.subs = @ \cup {s},
                          !.pc[s] = "open"]
    /\ UNCHANGED <<engineVars, sup>>

\* The handler's loop `for trade := range sub.ch` takes the oldest value.
RecvSub(s) ==
    /\ hub.pc[s] = "open"
    /\ hub.ch[s].buf # <<>>
    /\ hub' = [hub EXCEPT !.ch[s].buf = Tail(@)]
    /\ UNCHANGED <<engineVars, sup>>

\* Unsubscribe deleting the subscription without waiting for h.mu.
UnsubscribeDelete_unlocked(s) ==
    /\ hub.pc[s] = "open"
    /\ hub' = [hub EXCEPT !.subs = @ \ {s}, !.pc[s] = "deleted"]
    /\ UNCHANGED <<engineVars, sup>>

\* hub.Unsubscribe, first part: the handler returns (a write failed) and its
\* deferred Unsubscribe deletes the subscription under Lock.
UnsubscribeDelete(s) ==
    /\ hub.pc[s] = "open"
    /\ Lockable
    /\ hub' = [hub EXCEPT !.subs = @ \ {s}, !.pc[s] = "deleted"]
    /\ UNCHANGED <<engineVars, sup>>

\* hub.Unsubscribe, second part: close(sub.ch), after Unlock.
UnsubscribeClose(s) ==
    /\ hub.pc[s] = "deleted"
    /\ hub' = [hub EXCEPT !.ch[s].closed = TRUE, !.pc[s] = "closed"]
    /\ UNCHANGED <<engineVars, sup>>

\* hub.Broadcast(value): RLock, and the loop is over the subscriptions of now.
BroadcastBegin ==
    /\ hub.bc.pc = "idle"
    /\ hub.bc.sent < MaxBroadcasts
    /\ hub' = [hub EXCEPT !.bc = [pc |-> "iter", value |-> hub.bc.sent + 1,
                                  todo |-> hub.subs, sent |-> hub.bc.sent + 1]]
    /\ UNCHANGED <<engineVars, sup>>

\* One turn of the loop of Broadcast: the select sends the value if the buffer
\* has room and takes the default if not; a send on a closed channel panics.
BroadcastSend(s) ==
    /\ hub.bc.pc = "iter"
    /\ s \in hub.bc.todo
    /\ hub' =
         IF hub.ch[s].closed
         THEN [hub EXCEPT !.panicked = TRUE, !.bc.pc = "panicked"]
         ELSE IF Len(hub.ch[s].buf) < hub.ch[s].cap
         THEN [hub EXCEPT !.ch[s].buf = Append(@, hub.bc.value), !.bc.todo = @ \ {s}]
         ELSE [hub EXCEPT !.bc.todo = @ \ {s}]
    /\ UNCHANGED <<engineVars, sup>>

\* The loop of Broadcast is over: RUnlock.
BroadcastEnd ==
    /\ hub.bc.pc = "iter"
    /\ hub.bc.todo = {}
    /\ hub' = [hub EXCEPT !.bc.pc = "idle"]
    /\ UNCHANGED <<engineVars, sup>>

NextHub ==
    \/ \E s \in Subs, buffer \in 1..MaxBuffer : Subscribe(s, buffer)
    \/ \E s \in Subs : RecvSub(s)
    \/ \E s \in Subs : UnsubscribeDelete(s)
    \/ \E s \in Subs : UnsubscribeClose(s)
    \/ BroadcastBegin
    \/ \E s \in Subs : BroadcastSend(s)
    \/ BroadcastEnd

\* Stream handlers come and go while the hub broadcasts.
SpecHub == Init /\ [][NextHub]_vars

\* ------------------------------------------------------------ supervisor
\* ThrottledClient.SubmitOrder up to the book's reply: the symbol is defaulted
\* and the price rounded down to the tick.
clientOrder(order) ==
    LET o1 == IF order.Symbol = "" THEN [order EXCEPT !.Symbol = cfg.Symbol] ELSE order
    IN  IF o1.Price > 0 /\ o1.Price % cfg.TickSize # 0
        THEN [o1 EXCEPT !.Price = (o1.Price \div cfg.TickSize) * cfg.TickSize]
        ELSE o1

\* Record applied to the PnL sp for a trade, with the ids owned now.
Record(sp, trade) ==
    LET p1 == IF trade.BuyOrderID \in sp.owned
              THEN [sp EXCEPT !.position = @ + trade.Quantity,
                              !.cash = @ - trade.Price * trade.Quantity]
              ELSE sp
    IN  IF trade.SellOrderID \in sp.owned
        THEN [p1 EXCEPT !.position = @ - trade.Quantity,
                        !.cash = @ + trade.Price * trade.Quantity]
        ELSE p1

\* A bot takes an id from NextID and calls client.SubmitOrder, which runs to
\* the return of book.SubmitOrder: the worker has matched the order and sent
\* its trades on ob.trades.  A rejected order returns at once.
ClientSubmit(b) ==
    /\ sup.bot[b].pc = "idle"
    /\ sup.orderSeq < Len(BotIds)
    /\ \E order \in BotInputs(b, BotIds[sup.orderSeq + 1]) :
         /\ SubmitOrder(clientOrder(order))
         /\ seq' <= MaxSeq
         /\ Len(tradesCh) + Len(last'.trades) <= TradesCap
         /\ tradesCh' = tradesCh \o last'.trades
         /\ feed' = [feed EXCEPT !.sent = @ \o last'.trades]
         /\ sup' = [sup EXCEPT !.orderSeq = @ + 1,
                               !.bot[b] = IF last'.err = NoErr
                                          THEN [pc |-> "submitted", id |-> order.ID]
                                          ELSE @]
    /\ UNCHANGED <<calls, hist, stopped, updatesCh, worker, hub>>

\* client.SubmitOrder after the book accepted: the id is recorded as owned.
ClientOwn(b) ==
    /\ sup.bot[b].pc = "submitted"
    /\ sup' = [sup EXCEPT !.owned = @ \cup {sup.bot[b].id},
                          !.bot[b] = [pc |-> "idle", id |-> ""]]
    /\ UNCHANGED <<engineVars, hub>>

\* Supervisor.consumeTrades: the next trade of the stream goes to pnl.Record.
ConsumeTrade ==
    /\ tradesCh # <<>>
    /\ tradesCh' = Tail(tradesCh)
    /\ feed' = [feed EXCEPT !.got = Append(@, Head(tradesCh))]
    /\ sup' = Record(sup, Head(tradesCh))
    /\ UNCHANGED <<cfg, bids, asks, orders, seq, clock, last, calls, hist, stopped,
                   updatesCh, worker, hub>>

NextBots ==
    \/ \E b \in Bots : ClientSubmit(b)
    \/ \E b \in Bots : ClientOwn(b)
    \/ ConsumeTrade

\* The bots trade through the client while the supervisor consumes the trades.
SpecBots == Init /\ [][NextBots]_vars

\* ------------------------------------------------------------------ properties
\* A step of a command, as opposed to a step of the clock.
CommandStep == clock' = clock

SubmitAccepted == CommandStep /\ last'.op = "submit" /\ last'.err = NoErr

RECURSIVE SumQty(_)
SumQty(trades) ==
    IF trades = <<>> THEN 0 ELSE trades[1].Quantity + SumQty(Tail(trades))

\* The queue an order of side `side` matches against.
OpposingOf(side, b, a) == IF side = Buy THEN a ELSE b

HasEid(q, e) == \E x \in Range(q) : x.eid = e

EntryIn(q, e) == CHOOSE x \in Range(q) : x.eid = e

RemainingIn(q, e) == IF HasEid(q, e) THEN EntryIn(q, e).order.Remaining ELSE 0

\* What the trades of reply r took from the entry e.
FilledOf(r, e) ==
    SumQty(SelectSeq([i \in 1..Len(r.trades) |->
                        [Quantity |-> r.trades[i].Quantity, eid |-> r.steps[i].eid]],
                     LAMBDA t : t.eid = e))

\* C1: conservation of shares.  For every accepted submit the quantities of
\* its trades plus the incoming order's remaining after matching equal its
\* quantity, and every order that rested on the opposing queue lost exactly
\* the quantity of the trades it took part in.
C1_Conservation ==
    [][SubmitAccepted =>
        /\ SumQty(last'.trades) + last'.order.Remaining = last'.order.Quantity
        /\ \A x \in Range(OpposingOf(last'.order.Side, bids, asks)) :
             x.order.Remaining
               - RemainingIn(OpposingOf(last'.order.Side, bids', asks'), x.eid)
             = FilledOf(last', x.eid)]_vars

\* A submit swept two resting orders.
C1_Witness ==
    /\ last.op = "submit" /\ last.err = NoErr
    /\ Len(last.trades) = 2
    /\ last.steps[1].eid # last.steps[2].eid

\* C2: trade price rule.  Each trade of an accepted submit, limit or market,
\* carries the price of the resting order it was matched with, and the first
\* one the price of the opposing top before the submit.
C2_TradePrice ==
    [][SubmitAccepted =>
        /\ \A i \in 1..Len(last'.trades) :
             /\ HasEid(OpposingOf(last'.order.Side, bids, asks), last'.steps[i].eid)
             /\ last'.trades[i].Price =
                  EntryIn(OpposingOf(last'.order.Side, bids, asks),
                          last'.steps[i].eid).order.Price
        /\ last'.trades # <<>> =>
             last'.trades[1].Price =
               At(OpposingOf(last'.order.Side, bids, asks), 0).order.Price]_vars

\* A limit order traded at a price that is not its own.
C2_Witness ==
    /\ last.op = "submit" /\ last.err = NoErr
    /\ last.order.Type = Limit
    /\ last.trades # <<>>
    /\ last.trades[1].Price # last.order.Price

\* The opposing top after a submit stops an order of this side and price.
PriceStops(order, opposing) ==
    \/ order.Side = Buy /\ order.Price < At(opposing, 0).order.Price
    \/ order.Side = Sell /\ order.Price > At(opposing, 0).order.Price

\* C3: limit price protection.  A limit buy never trades above its price and a
\* limit sell never below; a limit order stops matching only when it is
\* filled, the opposing queue is empty or the opposing top's price fails the
\* check; a market order stops only when filled or the opposing queue is empty.
C3_LimitProtection ==
    (last.op = "submit" /\ last.err = NoErr) =>
        /\ last.order.Type = Limit =>
             \A i \in 1..Len(last.trades) :
                 IF last.order.Side = Buy
                 THEN last.trades[i].Price <= last.order.Price
                 ELSE last.trades[i].Price >= last.order.Price
        /\ last.order.Type = Limit =>
             \/ last.order.Remaining = 0
             \/ OpposingOf(last.order.Side, bids, asks) = <<>>
             \/ PriceStops(last.order, OpposingOf(last.order.Side, bids, asks))
        /\ last.order.Type = Market =>
             \/ last.order.Remaining = 0
             \/ OpposingOf(last.order.Side, bids, asks) = <<>>

\* A limit order traded, then stopped at a worse-priced opposing top with
\* quantity left.
C3_Witness ==
    /\ last.op = "submit" /\ last.err = NoErr
    /\ last.order.Type = Limit
    /\ last.trades # <<>>
    /\ last.order.Remaining > 0
    /\ OpposingOf(last.order.Side, bids, asks) # <<>>

\* x rests ahead of y in time: earlier timestamp, then lower sequence.
Earlier(x, y) ==
    \/ x.order.Timestamp < y.order.Timestamp
    \/ x.order.Timestamp = y.order.Timestamp /\ x.order.Sequence < y.order.Sequence

\* C4: price-time priority.  Of two orders resting on one side at one price,
\* the later one takes part in a trade of an incoming order only after the
\* earlier one was traded and filled completely.
C4_PriceTimePriority ==
    [][SubmitAccepted =>
        \A x, y \in Range(OpposingOf(last'.order.Side, bids, asks)) :
            (x.order.Price = y.order.Price /\ Earlier(x, y)) =>
                \A i \in 1..Len(last'.steps) :
                    last'.steps[i].eid = y.eid =>
                        /\ \E j \in 1..(i - 1) : last'.steps[j].eid = x.eid
                        /\ ~HasEid(OpposingOf(last'.order.Side, bids', asks'),
                                   x.eid)]_vars

\* An incoming order traded with two orders resting at one price.
C4_Witness ==
    /\ last.op = "submit" /\ last.err = NoErr
    /\ Len(last.trades) = 2
    /\ last.trades[1].Price = last.trades[2].Price
    /\ last.steps[1].eid # last.steps[2].eid

\* The top of each queue has the best price of its side.
TopIsBest ==
    /\ \A x \in Range(bids) : At(bids, 0).order.Price >= x.order.Price
    /\ \A x \in Range(asks) : At(asks, 0).order.Price <= x.order.Price

\* The best bid is not above the best ask.
NotCrossed(b, a) ==
    (b # <<>> /\ a # <<>>) => At(b, 0).order.Price <= At(a, 0).order.Price

\* C5 as claimed: top of heap is best and the book is not crossed, after
\* every command of any sequence of submits, cancels and amends.
C5_TopBestNotCrossed == TopIsBest /\ NotCrossed(bids, asks)

\* C5 as amended: the top of each queue is the best price of its side after
\* every command, and no submit or cancel makes a book crossed that was not
\* (an amend can: it posts a marketable price without matching).
C5_TopBestSubmitCancelKeepUncrossed ==
    /\ []TopIsBest
    /\ [][(CommandStep /\ last'.op # "amend" /\ NotCrossed(bids, asks))
            => NotCrossed(bids', asks')]_vars

\* An amend moved the order it repriced away from the top of a queue that
\* holds another order.
C5_Witness ==
    /\ last.op = "amend" /\ last.err = NoErr
    /\ \/ Len(bids) >= 2 /\ At(bids, 1).order.ID = last.id
                         /\ At(bids, 1).order.Sequence = seq
                         /\ At(bids, 1).order.Price < At(bids, 0).order.Price
       \/ Len(asks) >= 2 /\ At(asks, 1).order.ID = last.id
                         /\ At(asks, 1).order.Sequence = seq
                         /\ At(asks, 1).order.Price > At(asks, 0).order.Price

\* C6: order index consistency.  An id is a key of the orders index exactly
\* when an order of that id rests on a queue, and the entry indexed under an
\* id is in a queue and carries that id; for any sequence of commands, reuse
\* of a resting id included.
C6_IndexConsistent ==
    /\ \A id \in Ids :
         id \in DOMAIN orders <=>
           \E x \in Range(bids) \cup Range(asks) : x.order.ID = id
    /\ \A id \in DOMAIN orders :
         \E x \in Range(bids) \cup Range(asks) :
             x.eid = orders[id] /\ x.order.ID = id

\* C7: an amend that returns an error leaves both queues, the index and the
\* sequence counter as they were.
C7_AmendErrorKeepsState ==
    [][(CommandStep /\ last'.op = "amend" /\ last'.err # NoErr)
         => UNCHANGED <<bids, asks, orders, seq>>]_vars

\* C8: a submit that fails validation leaves both queues, the index and the
\* sequence counter as they were, sends no trade and offers no view.
C8_RejectedSubmitNoEffect ==
    [][(CommandStep /\ last'.op = "submit" /\ last'.err # NoErr)
         => /\ UNCHANGED <<bids, asks, orders, seq>>
            /\ last'.trades = <<>>
            /\ last'.published = <<>>]_vars

\* A submit was rejected by a book that holds orders on both sides.
C8_Witness ==
    /\ last.op = "submit" /\ last.err # NoErr
    /\ bids # <<>> /\ asks # <<>>

\* The tick check of the claim: a limit order fails it when the tick size is
\* not positive, the price is not positive or the price is off the tick.
OffTick(order) ==
    \/ cfg.TickSize <= 0
    \/ order.Price <= 0
    \/ order.Price % cfg.TickSize # 0

\* C9: submit validation.  The reply is SymbolMismatch exactly for a wrong
\* symbol; else InvalidQuantity exactly for a quantity that is not positive;
\* else TickAlignment exactly for a limit order that fails the tick check; a
\* market order with the right symbol and a positive quantity is accepted
\* whatever its price.
C9_SubmitValidation ==
    last.op = "submit" =>
        /\ last.err = "SymbolMismatch" <=> last.order.Symbol # cfg.Symbol
        /\ last.err = "InvalidQuantity" <=>
             (last.order.Symbol = cfg.Symbol /\ last.order.Quantity <= 0)
        /\ last.err = "TickAlignment" <=>
             /\ last.order.Symbol = cfg.Symbol
             /\ last.order.Quantity > 0
             /\ last.order.Type = Limit
             /\ OffTick(last.order)
        /\ last.err \in {NoErr, "SymbolMismatch", "InvalidQuantity", "TickAlignment"}
        /\ (last.order.Type = Market /\ last.order.Symbol = cfg.Symbol
              /\ last.order.Quantity > 0) => last.err = NoErr

\* A market order whose price is off the tick was accepted.
C9_Witness ==
    /\ last.op = "submit" /\ last.err = NoErr
    /\ last.order.Type = Market
    /\ cfg.TickSize = 2 /\ last.order.Price = 3

\* No order of this id is the best bid or the best ask of view v.
NotAtTop(v, id) ==
    /\ v.BestBid # <<>> => v.BestBid[1].ID # id
    /\ v.BestAsk # <<>> => v.BestAsk[1].ID # id

\* C10: cancel removes.  The command that follows a successful cancel(id), if
\* it is a snapshot, returns no order of that id as best bid or best ask, and
\* if it is an amend or a cancel of that id, returns NotFound; and a cancel of
\* an id that is not in the index returns NotFound.
C10_CancelRemoves ==
    [][CommandStep =>
        /\ (last.op = "cancel" /\ last.err = NoErr /\ last'.op = "snapshot")
             => NotAtTop(last'.view[1], last.id)
        /\ (last.op = "cancel" /\ last.err = NoErr
              /\ last'.op \in {"amend", "cancel"} /\ last'.id = last.id)
             => last'.err = "NotFound"
        /\ (last'.op = "cancel" /\ last'.id \notin DOMAIN orders)
             => last'.err = "NotFound"]_vars

QueueEids(q) == {x.eid : x \in Range(q)}

StepEids(r) == {r.steps[i].eid : i \in 1..Len(r.steps)}

\* The entries that left a queue in this step.
LeftQueues ==
    (QueueEids(bids) \ QueueEids(bids')) \cup (QueueEids(asks) \ QueueEids(asks'))

\* The entries this step's command took out by matching or by cancelling.
TakenOut ==
    StepEids(last') \cup
      (IF last'.op = "cancel" /\ last'.err = NoErr THEN {orders[last'.id]} ELSE {})

DepthBounded ==
    cfg.MaxDepth > 0 => Len(bids) <= cfg.MaxDepth /\ Len(asks) <= cfg.MaxDepth

\* C11: depth bound.  With max_depth > 0 neither side holds more than
\* max_depth entries after any command; with max_depth = 0 an entry leaves a
\* queue only by being matched or cancelled, never by eviction.
C11_DepthBound ==
    /\ []DepthBounded
    /\ [][(CommandStep /\ cfg.MaxDepth = 0) => LeftQueues \subseteq TakenOut]_vars

\* Under max_depth 1 a limit order was posted without trading and then
\* evicted by the trim: its side holds one entry, which is not the new one.
C11_Witness ==
    /\ cfg.MaxDepth = 1
    /\ last.op = "submit" /\ last.err = NoErr
    /\ last.order.Type = Limit /\ last.order.Remaining > 0
    /\ Len(IF last.order.Side = Buy THEN bids ELSE asks) = 1
    /\ \A x \in Range(bids) \cup Range(asks) : x.order.Sequence # last.order.Sequence

\* Order a has priority over order b on a side: better price, then earlier
\* timestamp, then lower sequence.
Outranks(a, b, isBid) ==
    IF a.Price # b.Price
    THEN IF isBid THEN a.Price > b.Price ELSE a.Price < b.Price
    ELSE IF a.Timestamp # b.Timestamp THEN a.Timestamp < b.Timestamp
         ELSE a.Sequence < b.Sequence

\* The orders this step's trim evicted from the side that is q before the step
\* and q2 after it: the entries that left it unmatched and uncancelled, and
\* the incoming limit order when it was posted and is not there.
EvictedFrom(q, q2, isBid) ==
    {x.order : x \in {y \in Range(q) : y.eid \notin QueueEids(q2) \cup TakenOut}}
    \cup (IF /\ last'.op = "submit" /\ last'.err = NoErr
             /\ last'.order.Type = Limit /\ last'.order.Remaining > 0
             /\ (last'.order.Side = Buy) = isBid
             /\ \A y \in Range(q2) : y.order.Sequence # last'.order.Sequence
          THEN {last'.order} ELSE {})

WorstLeft(q, q2, isBid) ==
    \A e \in EvictedFrom(q, q2, isBid) :
        /\ \A y \in Range(q2) : ~Outranks(e, y.order, isBid)
        /\ e.ID \notin DOMAIN orders'
        /\ last'.err = NoErr
        /\ \A i \in 1..Len(last'.steps) :
             last'.steps[i].eid \in QueueEids(OpposingOf(last'.order.Side, bids, asks))

\* C12: trimming evicts the worst-priority entry.  Whenever a command's trim
\* removes an order from a side, no order left on that side ranks below it
\* (price, then timestamp, then sequence), its id is no key of the index, the
\* command succeeded and each of its trades is a match with an opposing entry.
C12_EvictsWorst ==
    [][CommandStep => WorstLeft(bids, bids', TRUE) /\ WorstLeft(asks, asks', FALSE)]_vars

Resting == Range(bids) \cup Range(asks)

\* A step of a command that draws a sequence number: an accepted submit or a
\* successful amend.
Sequenced == CommandStep /\ last'.op \in {"submit", "amend"} /\ last'.err = NoErr

\* No resting order carries a sequence above the counter, and no two resting
\* orders carry the same one.
SequencesDistinct ==
    /\ \A x \in Resting : x.order.Sequence <= seq
    /\ \A x, y \in Resting : x.order.Sequence = y.order.Sequence => x = y

\* C13: monotone sequence.  An accepted submit and a successful amend assign
\* the counter's next value, which is above every value assigned before, to
\* the incoming or the amended order; no two resting orders share a sequence;
\* a rejected command, a cancel and a snapshot leave the counter as it was.
C13_MonotoneSequence ==
    /\ []SequencesDistinct
    /\ [][CommandStep =>
            IF Sequenced
            THEN /\ seq' = seq + 1
                 /\ last'.op = "submit" => last'.order.Sequence = seq'
                 /\ last'.op = "amend" =>
                      \E x \in Range(bids') \cup Range(asks') :
                          x.eid = orders[last'.id] /\ x.order.Sequence = seq'
                 /\ \A x \in Resting : x.order.Sequence < seq'
            ELSE seq' = seq]_vars

\* An amend drew the third sequence number while another order rests.
C13_Witness ==
    /\ last.op = "amend" /\ last.err = NoErr
    /\ seq = 3
    /\ Cardinality(Resting) >= 2

\* The queue an order of side `side` rests on.
OwnOf(side, b, a) == IF side = Buy THEN b ELSE a

\* Order o rests on queue q as an entry of its side, under its id in index ord.
RestsOn(o, q, ord) ==
    \E x \in Range(q) :
        /\ x.order = o
        /\ x.isBid = (o.Side = Buy)
        /\ o.ID \in DOMAIN ord /\ ord[o.ID] = x.eid

\* An order stamped with sequence n is in a queue.
InQueues(n, b, a) == \E x \in Range(b) \cup Range(a) : x.order.Sequence = n

RECURSIVE DrainOrder(_)
DrainOrder(q) ==
    IF q = <<>> THEN <<>> ELSE <<At(q, 0)>> \o DrainOrder(HeapPop(q).q)

\* Matching takes the entries of q by priority: none is taken before one
\* that outranks it.
DrainSorted(q) ==
    \A i, j \in 1..Len(q) :
        i < j => ~Outranks(DrainOrder(q)[j].order, DrainOrder(q)[i].order,
                           DrainOrder(q)[i].isBid)

\* Position of the entry e in the order matching takes the entries of q.
DrainPos(q, e) == CHOOSE i \in 1..Len(q) : DrainOrder(q)[i].eid = e

\* The amended entry x of queue q carries the new sequence and the current
\* time, and every other entry of q at its price is taken before it.
AmendedLast(q, x) ==
    /\ x.order.Sequence = seq'
    /\ x.order.Timestamp = clock
    /\ \A y \in Range(q) :
         (y.eid # x.eid /\ y.order.Price = x.order.Price) =>
             /\ Earlier(y, x)
             /\ DrainPos(q, y.eid) < DrainPos(q, x.eid)

\* C15: amend loses time priority.  After a successful amend, whatever fields
\* it supplied, the amended order carries a fresh sequence and timestamp and
\* is behind every other order of its side at its price in the order matching
\* takes them; matching always takes resting orders by price, then timestamp,
\* then sequence, so it stays behind them until one of them is amended.
C15_AmendLosesPriority ==
    /\ [](DrainSorted(bids) /\ DrainSorted(asks))
    /\ [][(Sequenced /\ last'.op = "amend") =>
            /\ HasEid(bids, orders[last'.id]) =>
                 /\ HasEid(bids', orders[last'.id])
                 /\ AmendedLast(bids', EntryIn(bids', orders[last'.id]))
            /\ HasEid(asks, orders[last'.id]) =>
                 /\ HasEid(asks', orders[last'.id])
                 /\ AmendedLast(asks', EntryIn(asks', orders[last'.id]))]_vars

\* An amend sent the order that was first at its price behind a younger one:
\* the amended entry has the older identity and is not the top.
C15_Witness ==
    /\ last.op = "amend" /\ last.err = NoErr
    /\ \E q \in {bids, asks} :
         /\ Len(q) = 2
         /\ At(q, 0).order.Price = At(q, 1).order.Price
         /\ At(q, 1).order.ID = last.id
         /\ At(q, 0).order.ID # last.id
         /\ At(q, 1).order.Sequence = seq
         /\ At(q, 1).eid < At(q, 0).eid
         /\ At(q, 1).order.Timestamp = At(q, 0).order.Timestamp

\* The entry e is on queue q2 as it was on queue q: same side flag, and its
\* order has the same id and side.
StaysOn(q, q2, e) ==
    HasEid(q, e) =>
        /\ HasEid(q2, e)
        /\ EntryIn(q2, e).isBid = EntryIn(q, e).isBid
        /\ EntryIn(q2, e).order.Side = EntryIn(q, e).order.Side
        /\ EntryIn(q2, e).order.ID = EntryIn(q, e).order.ID

\* C16: amend does not match.  A successful amend sends no trade, whatever
\* the new price is against the opposing top; the amended order stays on the
\* side it was on; each side holds the entries it held before, and a side
\* that does not hold the amended order is unchanged.
C16_AmendNoCross ==
    [][(Sequenced /\ last'.op = "amend") =>
        /\ last'.trades = <<>>
        /\ StaysOn(bids, bids', orders[last'.id])
        /\ StaysOn(asks, asks', orders[last'.id])
        /\ Len(bids') = Len(bids) /\ Len(asks') = Len(asks)
        /\ QueueEids(bids') = QueueEids(bids) /\ QueueEids(asks') = QueueEids(asks)
        /\ ~HasEid(bids, orders[last'.id]) => bids' = bids
        /\ ~HasEid(asks, orders[last'.id]) => asks' = asks]_vars

\* An amend left its order priced through the opposing top: the best bid is
\* above the best ask and both orders rest.
C16_Witness ==
    /\ last.op = "amend" /\ last.err = NoErr
    /\ bids # <<>> /\ asks # <<>>
    /\ At(bids, 0).order.Price > At(asks, 0).order.Price
    /\ last.trades = <<>>

\* The entry trade i of reply r was matched with, as it rested on queue q.
MatchedWith(r, q, i) == EntryIn(q, r.steps[i].eid)

\* C20: trade ordering within a submit.  The trades of one submit come in
\* match order, best-priced resting order first: a buy's trade prices never
\* decrease and a sell's never increase, each resting order's trades are
\* consecutive, and of two resting orders traded at one price the earlier
\* (timestamp, then sequence) is traded first.
C20_TradeOrder ==
    [][SubmitAccepted =>
        \A i, j \in 1..Len(last'.trades) :
            i < j =>
              /\ IF last'.order.Side = Buy
                 THEN last'.trades[i].Price <= last'.trades[j].Price
                 ELSE last'.trades[i].Price >= last'.trades[j].Price
              /\ last'.steps[i].eid # last'.steps[j].eid
              /\ last'.trades[i].Price = last'.trades[j].Price =>
                   Earlier(MatchedWith(last', OpposingOf(last'.order.Side, bids, asks), i),
                           MatchedWith(last', OpposingOf(last'.order.Side, bids, asks), j))]_vars

\* A submit traded at two prices, the better one first.
C20_Witness ==
    /\ last.op = "submit" /\ last.err = NoErr
    /\ Len(last.trades) = 2
    /\ last.trades[1].Price # last.trades[2].Price

\* Positions of the events of one kind among the outputs of reply r.
EventsAt(r, kind) == {i \in 1..Len(r.out) : r.out[i].kind = kind}

\* C19: trade-vs-view ordering.  Among the outputs of a successful submit the
\* sends on the trade stream are its trades, in match order, and every one of
\* them comes before the view the submit offers to the update stream.
C19_TradesBeforeView ==
    [][SubmitAccepted =>
        /\ Cardinality(EventsAt(last', "trade")) = Len(last'.trades)
        /\ \A i \in 1..Len(last'.trades) :
             /\ last'.out[i].kind = "trade"
             /\ last'.out[i].item = last'.trades[i]
        /\ Cardinality(EventsAt(last', "view")) = 1
        /\ \A v \in EventsAt(last', "view") :
             /\ last'.out[v].item = snapshotView(bids', asks')
             /\ \A t \in EventsAt(last', "trade") : t < v]_vars

\* A submit sent two trades and then offered its view.
C19_Witness ==
    /\ last.op = "submit" /\ last.err = NoErr
    /\ Len(last.trades) = 2
    /\ Len(last.out) = 4
    /\ last.out[4].kind = "view"

\* Every trade sent so far was received or is in the buffer, in send order.
NothingDropped == feed.sent = feed.got \o tradesCh

Book == <<bids, asks, orders, seq>>

Logged == {hist.log[i] : i \in 1..Len(hist.log)}

\* Each call is served at most once, after it was sent and before it returns.
ServedOnce ==
    /\ \A i, j \in 1..Len(hist.log) : hist.log[i] = hist.log[j] => i = j
    /\ hist.returned \subseteq Logged
    /\ \A c \in Callers :
         /\ calls[c].phase = "sending" => calls[c].ticket \notin Logged
         /\ calls[c].phase = "replied" => calls[c].ticket \in Logged

\* A call is served after every call that had returned when it was sent.
RealTimeOrder ==
    \A i \in 1..Len(hist.log) :
        \A t \in hist.after[hist.log[i]] :
            \E j \in 1..(i - 1) : hist.log[j] = t

\* The step serves exactly one call, that of caller c, and hands it the reply
\* of its own command.
ServesCall(c) ==
    /\ calls[c].phase = "sending"
    /\ hist.log' = Append(hist.log, calls[c].ticket)
    /\ calls'[c].phase = "replied"
    /\ last'.op = calls[c].req.op
    /\ calls'[c].err = last'.err
    /\ calls'[c].view = last'.view
    /\ calls[c].req.op = "snapshot" => calls'[c].view = <<snapshotView(bids, asks)>>
    /\ \A d \in Callers \ {c} : calls'[d] = calls[d]

\* C17: serial consistency.  With concurrent callers the book changes only
\* in steps that serve exactly one call, on the book the previous served
\* call left, so the order of the worker's log is the one total order of the
\* commands; each call is served once and gets the reply of its own command;
\* and a call sent after another call returned is served after it.
C17_SerialConsistency ==
    /\ [](ServedOnce /\ RealTimeOrder)
    /\ [][(Book' # Book \/ last' # last \/ hist.log' # hist.log)
            => \E c \in Callers : ServesCall(c)]_vars

\* Two calls in flight together were served in the opposite order of their
\* sending, and a later call, sent after one of them returned, was served.
C17_Witness ==
    /\ Len(hist.log) >= 3
    /\ \E i, j \in 1..Len(hist.log) : i < j /\ hist.log[i] > hist.log[j]
    /\ \E k \in 1..Len(hist.log) : hist.after[hist.log[k]] # {}
    /\ seq >= 2

\* C21: view publication.  A submit, cancel or amend that returns success
\* makes exactly one call of publishView, with the top of the book the command
\* left; a command that returns an error and a snapshot make none.
C21_ViewPublication ==
    [][CommandStep =>
        IF last'.op \in {"submit", "cancel", "amend"} /\ last'.err = NoErr
        THEN last'.published = <<snapshotView(bids', asks')>>
        ELSE last'.published = <<>>]_vars

\* A cancel took the best bid away and published the top of the book it left,
\* which shows another bid.
C21_Witness ==
    /\ last.op = "cancel" /\ last.err = NoErr
    /\ Len(last.published) = 1
    /\ last.published[1].BestBid # <<>>
    /\ last.published[1] = snapshotView(bids, asks)

\* ------------------------------------------------------------------ C22
\* C22: latest-wins view stream.  With no consumer draining ob.updates, once
\* the worker is idle again the last view readable from the update stream is
\* the top of book left by the most recent successful command.
C22_LatestWins ==
    (worker.pc = "recv" /\ feed.latest # <<>>) =>
        /\ updatesCh # <<>>
        /\ updatesCh[Len(updatesCh)] = snapshotView(bids, asks)
        /\ updatesCh[Len(updatesCh)] = feed.latest[1]

\* ------------------------------------------------------------------ C23
\* C23: Stop is terminal.  The step in which the worker processes Stop closes
\* the trade stream and the update stream and ends the worker; in every later
\* step, whatever commands are called, the worker stays ended, the streams
\* stay closed, the book (queues, index, sequence) is unchanged, no trade is
\* sent and no view is published.
C23_StopTerminal ==
    [][/\ (~stopped /\ stopped') => worker'.pc = "exited"
       /\ stopped =>
            /\ stopped' /\ worker'.pc = "exited"
            /\ <<bids, asks, orders, seq>>' = <<bids, asks, orders, seq>>
            /\ feed'.sent = feed.sent
            /\ Len(tradesCh') <= Len(tradesCh)
            /\ updatesCh' = updatesCh /\ feed'.latest = feed.latest]_vars

\* A sell called after Stop was processed, on a book with resting asks.
C23_Witness ==
    /\ stopped
    /\ asks # <<>>
    /\ calls["c2"].phase = "panicked"
    /\ calls["c2"].req = SmallSell

\* ------------------------------------------------------------------ C24
\* C24: a submit or snapshot called after Stop was processed is answered with
\* an error: its caller does not crash.
C24_RejectedAfterStop ==
    \A c \in Callers :
        calls[c].phase = "panicked" =>
            calls[c].req.op \notin {"submit", "cancel", "amend", "snapshot"}

\* ------------------------------------------------------------------ C28
\* C28: Stop called again on a stopped book returns: the second call does not
\* crash its caller and the book stays stopped.
C28_StopTwice ==
    /\ \A c \in Callers : calls[c].phase = "panicked" => calls[c].req.op # "stop"
    /\ worker.pc = "exited" => stopped

\* ------------------------------------------------------------------ C25
\* C25: snapshot independence.  The view a snapshot returns reads as the top
\* bid and top ask of the book at that moment, and from then on no step
\* changes both the book and what a held view reads as: a write to a field of
\* a returned view leaves the queues, the index and so every later snapshot
\* as they were, and a later command leaves every returned view as it was.
HeldView(c) == calls[c].view # <<>>

C25_SnapshotIndependence ==
    [][\A c \in Callers :
          /\ (~HeldView(c) /\ calls'[c].view # <<>>) =>
                ReadView(calls'[c].view[1], bids', asks') = snapshotView(bids, asks)
          /\ (HeldView(c) /\ calls'[c].view # <<>>) =>
                \/ <<bids, asks, orders, seq>>' = <<bids, asks, orders, seq>>
                \/ ReadView(calls'[c].view[1], bids', asks')
                     = ReadView(calls[c].view[1], bids, asks)]_vars

\* A caller holds a view whose best bid it overwrote with price 1, and an
\* amend has since moved the live best bid to price 4.
C25_Witness ==
    /\ HeldView("c1")
    /\ calls["c1"].view[1].BestBid # <<>>
    /\ calls["c1"].view[1].BestBid[1].order.Price = 1
    /\ last.op = "amend" /\ last.err = NoErr
    /\ peek(bids) # <<>>
    /\ peek(bids)[1].order.Price = 4
    /\ snapshotView(bids, asks).BestBid[1].Price = 4

\* ------------------------------------------------------------------ C26
\* C26: a snapshot is free of side effects.  A snapshot step leaves both
\* queues, the index and the sequence counter as they were, emits no trade
\* and publishes no view, and the view it returns is the top of that
\* unchanged book; so a snapshot taken right after another returns the same
\* view.
C26_SnapshotPure ==
    [][last'.op = "snapshot" =>
          /\ <<bids, asks, orders, seq>>' = <<bids, asks, orders, seq>>
          /\ last'.trades = <<>> /\ last'.published = <<>>
          /\ last'.err = NoErr
          /\ last'.view = <<snapshotView(bids, asks)>>
          /\ last'.view = <<snapshotView(bids', asks')>>
          /\ last.op = "snapshot" => last'.view = last.view]_vars

\* A snapshot of a book with a resting bid, served after a command.
C26_Witness ==
    /\ last.op = "snapshot"
    /\ seq > 0
    /\ last.view[1].BestBid # <<>>
    /\ last.view[1] = snapshotView(bids, asks)

\* ------------------------------------------------------------------ C27
\* C27: trade attribution.  Every trade of an accepted submit names as buyer
\* the incoming order when it is a buy and the resting order it matched
\* otherwise, names the other party as seller, and carries the book's symbol.
C27_TradeAttribution ==
    [][SubmitAccepted =>
        \A i \in 1..Len(last'.trades) :
            LET t == last'.trades[i]
                inc == last'.order
                rest == MatchedWith(last', OpposingOf(inc.Side, bids, asks), i).order
            IN  /\ t.BuyOrderID = IF inc.Side = Buy THEN inc.ID ELSE rest.ID
                /\ t.SellOrderID = IF inc.Side = Buy THEN rest.ID ELSE inc.ID
                /\ t.Symbol = cfg.Symbol]_vars

\* An incoming sell traded with a resting buy of another id.
C27_Witness ==
    /\ last.op = "submit" /\ last.err = NoErr
    /\ last.order.Side = Sell
    /\ last.trades # <<>>
    /\ last.trades[1].SellOrderID = last.order.ID
    /\ last.trades[1].BuyOrderID # last.order.ID

\* ------------------------------------------------------------------ C29
\* C29: worker suspension points.  Between receiving a request and being
\* ready to receive the next one, the worker can always take its next step
\* except when that step is a trade send and the trade buffer is full: the
\* reply send is always possible, also when the caller has given up the call,
\* and the publish is always possible, also when the update buffer is full.
C29_SuspensionPoints ==
    /\ worker.pc = "publish" => ENABLED Publish
    /\ worker.pc = "reply" => ENABLED SendReply
    /\ worker.pc = "send" => (ENABLED SendTrade <=> Len(tradesCh) < TradesCap)
    /\ worker.pc \in {"recv", "send", "reply", "publish", "exited"}

\* The worker is about to reply to a caller that gave up, with both stream
\* buffers full.
C29_Witness ==
    /\ worker.pc = "reply"
    /\ calls[worker.caller].phase = "abandoned"
    /\ Len(updatesCh) = UpdatesCap
    /\ Len(tradesCh) = TradesCap

\* ------------------------------------------------------------------ C30
\* Stop has been called or processed.
StopCalled ==
    \/ stopped
    \/ \E c \in Callers : calls[c].phase = "sending" /\ calls[c].req.op = "stop"

Dequeued(c) == calls[c].phase \in {"waiting", "abandoned"}

Answered(c) == calls[c].phase \in {"replied", "lost"}

\* The worker waits to send a trade on the full trade buffer.
BackPressure == worker.pc = "send" /\ Len(tradesCh) = TradesCap

\* C30: command liveness under back-pressure.  With a trade consumer that
\* keeps receiving, a command the worker dequeued is eventually answered and
\* a command being sent to a book on which Stop is not called is eventually
\* dequeued.  While the worker waits on the full trade buffer and no trade is
\* received, the worker stays where it is, the dequeued command stays
\* unanswered and every caller sending a command, a Snapshot or a Stop
\* included, keeps waiting; and the worker never stays on any other step.
C30_CommandLiveness ==
    /\ \A c \in Callers : Dequeued(c) ~> Answered(c)
    /\ \A c \in Callers :
          (calls[c].phase = "sending" /\ calls[c].req.op # "stop")
              ~> (Dequeued(c) \/ Answered(c) \/ StopCalled)
    /\ [][(BackPressure /\ tradesCh' = tradesCh) =>
             /\ worker' = worker
             /\ \A c \in Callers :
                  /\ Dequeued(c) => Dequeued(c)'
                  /\ calls[c].phase = "sending" => calls'[c] = calls[c]]_vars
    /\ [](worker.pc \in {"send", "reply", "publish"} => (BackPressure \/ ENABLED
            (SendTrade \/ SendReply \/ Publish)))

\* The worker waits on the full trade buffer while a Snapshot or a Stop is
\* being sent.
C30_Witness ==
    /\ BackPressure
    /\ calls["c1"].phase \in {"waiting", "abandoned"}
    /\ calls["c2"].phase = "sending"
    /\ calls["c2"].req.op \in {"snapshot", "stop"}

\* ------------------------------------------------------------------ C31
WellFormed(o) ==
    /\ o.Type = Limit
    /\ o.Symbol = cfg.Symbol
    /\ o.Price > 0 /\ o.Price % cfg.TickSize = 0
    /\ o.Quantity > 0
    /\ 0 < o.Remaining /\ o.Remaining <= o.Quantity

\* The quantities order o2 has after an amend of order o given newQty.
QtyAmended(o, o2, newQty) ==
    IF newQty = <<>>
    THEN o2.Quantity = o.Quantity /\ o2.Remaining = o.Remaining
    ELSE o2.Quantity = newQty[1] /\ o2.Remaining = min(o.Remaining, newQty[1])

ErrorReply == worker.pc = "reply" /\ last.err # NoErr /\ worker' # worker

\* C32: no error is fatal to the worker.  The worker sends on the trade
\* stream and offers views to the update stream only for commands that
\* succeeded; after replying with an error it is back at the receive with the
\* book running, the streams open and holding what they held and the book as
\* the handler left it; and a command sent after an error is still dequeued
\* (or Stop is called).
C32_ErrorsNotFatal ==
    /\ [](worker.pc \in {"send", "publish"} => last.err = NoErr)
    /\ [][ErrorReply =>
            /\ worker'.pc = "recv" /\ ~stopped'
            /\ tradesCh' = tradesCh /\ updatesCh' = updatesCh
            /\ feed' = feed
            /\ <<bids, asks, orders, seq>>' = <<bids, asks, orders, seq>>]_vars
    /\ \A c \in Callers :
          (last.err # NoErr /\ calls[c].phase = "sending" /\ calls[c].req.op # "stop")
              ~> (Dequeued(c) \/ Answered(c) \/ StopCalled)

\* Caller c2 gave up a call that was then answered with an error, its last
\* call; the worker has since dequeued the bid of c1 and is sending its trades.
C32_Witness ==
    /\ calls["c2"].phase = "lost"
    /\ calls["c2"].err # NoErr
    /\ worker.pc = "send"
    /\ worker.caller = "c1"
    /\ last.err = NoErr
    /\ ~stopped

\* ------------------------------------------------------------------ C33
\* The resting entries whose order has this id.
RestingAs(id, b, a) == {x \in Range(b) \cup Range(a) : x.order.ID = id}

\* The entry the incoming order of this step was posted as, if it rests.
Posted(b, a, n) == {x \in Range(b) \cup Range(a) : x.order.Sequence = n}

\* C33: duplicate resting id.  A valid submit whose id already rests is
\* accepted; when the new order rests too, the index holds the new entry
\* under the id, and every older entry of the id that the submit did not
\* match stays in its queue with its order as it was, not indexed; a
\* successful cancel or amend of an id acts on the entry the index holds.
C33_DuplicateRestingId ==
    [][CommandStep =>
        /\ (last'.op = "submit" /\ RestingAs(last'.id, bids, asks) # {}) =>
             /\ last'.err = NoErr
             /\ \A x \in Posted(bids', asks', seq') :
                  /\ last'.id \in DOMAIN orders'
                  /\ orders'[last'.id] = x.eid
                  /\ \A y \in RestingAs(last'.id, bids, asks) :
                       y.eid \notin StepEids(last') =>
                         /\ y.eid # x.eid
                         /\ \E z \in RestingAs(last'.id, bids', asks') :
                              z.eid = y.eid /\ z.order = y.order
        /\ (last'.op = "cancel" /\ last'.err = NoErr) =>
             LeftQueues = {orders[last'.id]}
        /\ (last'.op = "amend" /\ last'.err = NoErr) =>
             \A x \in Posted(bids', asks', seq') : x.eid = orders[last'.id]]_vars

\* ------------------------------------------------------------------ C34
\* The worker serves the call of caller c in this step.
Serving(c) == calls[c].phase = "sending" /\ calls'[c].phase = "replied"

\* Entry x is ranked in queue q by its price: matching takes every entry with
\* a better price before it and every entry with a worse price after it.
RankedByPrice(q, x) ==
    \A y \in Range(q) :
        /\ (IF x.isBid THEN y.order.Price > x.order.Price
                       ELSE y.order.Price < x.order.Price)
             => DrainPos(q, y.eid) < DrainPos(q, x.eid)
        /\ (IF x.isBid THEN y.order.Price < x.order.Price
                       ELSE y.order.Price > x.order.Price)
             => DrainPos(q, y.eid) > DrainPos(q, x.eid)

Bystanders == {c \in Callers : StopReq \notin WorkRequests(c)}

\* C35: Stop racing with callers.  A caller other than the one that called
\* Stop, sending its command when the worker processes Stop or about to send
\* it, does not crash.
C35_StopRace == \A c \in Bystanders : calls[c].phase # "panicked"

\* ------------------------------------------------------------------ C36
\* Entry x of queue q was partly filled by this step's submit and is entry z
\* of q2 after it: only its remaining quantity went down, the index holds it
\* under the ids it was held under, and it is still taken before every entry
\* it was taken before.
PartFillKeeps(q, q2, x, z) ==
    /\ z.order = [x.order EXCEPT !.Remaining = z.order.Remaining]
    /\ 0 < z.order.Remaining /\ z.order.Remaining < x.order.Remaining
    /\ z.isBid = x.isBid
    /\ \A id \in DOMAIN orders :
         orders[id] = x.eid => (id \in DOMAIN orders' /\ orders'[id] = x.eid)
    /\ \A y \in Range(q2) :
         (HasEid(q, y.eid) /\ DrainPos(q, x.eid) < DrainPos(q, y.eid))
            => DrainPos(q2, x.eid) < DrainPos(q2, y.eid)

\* C36: a partial fill keeps priority.  A resting order that an incoming
\* order fills in part keeps its price, quantity, timestamp, sequence, side
\* and index entry, and stays ahead of every order of its side it was ahead
\* of.
C36_PartialFillKeepsPriority ==
    [][SubmitAccepted =>
        \A x \in Range(OpposingOf(last'.order.Side, bids, asks)) :
            (x.eid \in StepEids(last')
               /\ HasEid(OpposingOf(last'.order.Side, bids', asks'), x.eid)) =>
                 PartFillKeeps(OpposingOf(last'.order.Side, bids, asks),
                               OpposingOf(last'.order.Side, bids', asks'), x,
                               EntryIn(OpposingOf(last'.order.Side, bids', asks'), x.eid))]_vars

\* ------------------------------------------------------------------ C37
\* Queue q2 is queue q without the entry e: every other entry is there with
\* its order and side flag as they were, no entry was added, and matching
\* takes the entries left in the order it took them before.
SameBut(q, q2, e) ==
    /\ QueueEids(q2) = QueueEids(q) \ {e}
    /\ Len(q2) = Cardinality(QueueEids(q2))
    /\ \A x \in Range(q) :
         x.eid # e =>
            /\ EntryIn(q2, x.eid).order = x.order
            /\ EntryIn(q2, x.eid).isBid = x.isBid
    /\ \A x, y \in Range(q) :
         (x.eid # e /\ y.eid # e /\ DrainPos(q, x.eid) < DrainPos(q, y.eid))
            => DrainPos(q2, x.eid) < DrainPos(q2, y.eid)

\* C37: cancel frame.  A successful cancel(id) takes out of the queues the
\* one entry the index held under id and deletes that key; every other
\* resting order on both sides keeps its fields and its place relative to
\* the others, the sequence counter is unchanged and no trade is emitted.
C37_CancelFrame ==
    [][(CommandStep /\ last'.op = "cancel" /\ last'.err = NoErr) =>
        /\ last'.id \in DOMAIN orders
        /\ HasEid(bids, orders[last'.id]) \/ HasEid(asks, orders[last'.id])
        /\ SameBut(bids, bids', orders[last'.id])
        /\ SameBut(asks, asks', orders[last'.id])
        /\ orders' = DeleteKey(orders, last'.id)
        /\ seq' = seq
        /\ last'.trades = <<>>]_vars

\* A cancel took one of three bids and left the other two resting.
C37_Witness ==
    /\ last.op = "cancel" /\ last.err = NoErr
    /\ Len(bids) = 2
    /\ seq = 3
    /\ last.id \notin DOMAIN orders

\* ------------------------------------------------------------------ C38
\* Broadcast is in its loop and can take its next step.
BroadcastStep == (\E s \in Subs : BroadcastSend(s)) \/ BroadcastEnd

\* The turn of the loop of Broadcast for subscription s.
SendTurn(s) == hub.bc.pc = "iter" /\ s \in hub.bc.todo /\ s \notin hub'.bc.todo

\* C38: fan-out hub safety.  Under any interleaving of Subscribe, Unsubscribe
\* and Broadcast (each subscription unsubscribed at most once), Broadcast
\* never sends on a closed subscriber channel and never blocks on a slow
\* subscriber: a full buffer drops the value for that subscriber only.
C38_HubSafety ==
    /\ [](~hub.panicked)
    /\ [](hub.bc.pc = "iter" => (\A s \in hub.bc.todo : ~hub.ch[s].closed))
    /\ [](hub.bc.pc = "iter" => ENABLED BroadcastStep)
    /\ [][\A s \in Subs : SendTurn(s) =>
            /\ hub'.bc.pc = "iter"
            /\ hub'.ch[s].buf =
                 IF Len(hub.ch[s].buf) = hub.ch[s].cap
                 THEN hub.ch[s].buf
                 ELSE Append(hub.ch[s].buf, hub.bc.value)
            /\ \A t \in Subs \ {s} : hub'.ch[t] = hub.ch[t]]_vars

\* The second value was broadcast: a subscriber whose buffer of one was full
\* of the first value lost it, another subscriber has it, and a third party
\* has gone.
C38_Witness ==
    /\ hub.bc.pc = "idle" /\ hub.bc.sent = 2
    /\ \E s, t \in Subs :
         /\ hub.pc[s] = "open" /\ hub.ch[s].cap = 1 /\ hub.ch[s].buf = <<1>>
         /\ hub.pc[t] = "closed" /\ hub.ch[t].buf = <<2>>

\* ------------------------------------------------------------------ C39
\* The ids the book accepted through the client: those recorded as owned and
\* those whose SubmitOrder is about to record them.
AcceptedIds == sup.owned \cup {sup.bot[b].id : b \in {x \in Bots : sup.bot[x].pc = "submitted"}}

\* What a trade adds to the position and to the cash when every side of it
\* that came through the client is counted.
DuePosition(t) ==
    (IF t.BuyOrderID \in AcceptedIds THEN t.Quantity ELSE 0)
    - (IF t.SellOrderID \in AcceptedIds THEN t.Quantity ELSE 0)
DueCash(t) ==
    (IF t.SellOrderID \in AcceptedIds THEN t.Price * t.Quantity ELSE 0)
    - (IF t.BuyOrderID \in AcceptedIds THEN t.Price * t.Quantity ELSE 0)

\* C39: PnL attribution.  Every trade whose buy or sell order id was
\* submitted successfully through the throttled client is counted in the
\* position and the cash when the supervisor records it, however the bots and
\* the trade consumer interleave.
C39_PnlAttribution ==
    [][Len(feed'.got) > Len(feed.got) =>
        /\ sup'.position = sup.position + DuePosition(Head(tradesCh))
        /\ sup'.cash = sup.cash + DueCash(Head(tradesCh))]_vars

\* ------------------------------------------------------------------ C40
\* Every entry of q holds its own position, and the side flag isBid.
BackPointers(q, isBid) ==
    \A i \in 0..(Len(q) - 1) : At(q, i).index = i /\ At(q, i).isBid = isBid

\* r is what a removal from q at position i returned: the entry that was
\* there, marked as out of the queue, and a queue of the others that holds
\* its back-pointers.
RemovedAt(q, i, r, isBid) ==
    /\ r.entry.eid = At(q, i).eid
    /\ r.entry.index = -1
    /\ QueueEids(r.q) = QueueEids(q) \ {At(q, i).eid}
    /\ BackPointers(r.q, isBid)

\* The queue of a book holds its back-pointers, and so does what pop, remove,
\* fix and trim make of it, with the removed entry at index -1.
IndexedQueue(q, isBid) ==
    /\ BackPointers(q, isBid)
    /\ Len(q) > 0 => RemovedAt(q, 0, HeapPop(q), isBid)
    /\ \A i \in 0..(Len(q) - 1) :
         /\ RemovedAt(q, i, HeapRemove(q, i), isBid)
         /\ BackPointers(HeapFix(q, i), isBid)
         /\ \A p \in {2, 4, 6} :
              BackPointers(HeapFix(SetOrder(q, i, [At(q, i).order EXCEPT !.Price = p]), i), isBid)
    /\ BackPointers(trimDepth(q, 1, isBid, orders).q, isBid)

\* C40: heap index back-pointers.  After every push, pop, fix, remove and
\* trim each entry e of a queue q has q[e.index] = e, every entry of the bid
\* queue has its bid flag set and every entry of the ask queue has it
\* cleared, and an entry removed from a queue has index -1.
C40_BackPointers == IndexedQueue(bids, TRUE) /\ IndexedQueue(asks, FALSE)

\* Three bids rest with the best of them pushed last: the push moved the
\* entry pushed first from the root to the last position.
C40_Witness ==
    /\ Len(bids) = 3
    /\ At(bids, 0).order.Sequence = 3
    /\ At(bids, 2).order.Sequence = 1
====
